---- MODULE Spec2Model ----
(***************************************************************************)
(* Dialogue Forge: the condition evaluator and its inverse (grant), the    *)
(* state model, the .dlg parser with its validate() pass, and the          *)
(* condition-aware path searches of the web editor backend.                *)
(*                                                                         *)
(* Strings of the .dlg format are modelled by their parsed shape:          *)
(*   - a value is a record [t, v]: t is "bool", "int" or "str", v the      *)
(*     integer (1/0 for True/False, an index for a string);                *)
(*   - a condition is a record [k, a, b]: one atom, or two atoms joined    *)
(*     by && or ||;                                                        *)
(*   - a command is a record [cmd, name, val].                             *)
(***************************************************************************)
EXTENDS Integers, Sequences, FiniteSets, TLC

VARIABLES
    \* condition evaluator / grant
    state,        \* the WebGameState (or CLI GameState) under test
    condition,    \* the condition string handed to grant / evaluate
    cpc,          \* which calls have been made on `state`
    result,       \* what the last evaluate_condition returned
    cmdline,      \* the command handed to execute_command
    skip,         \* its skip_if_exists argument
    \* parser
    text,         \* the lines handed to parse_lines, the lines of the validated file
    dialogue,     \* DialogueParser.dialogue
    ppc,          \* "init", "parsing", "parsed", "validated", "revalidated"
    known_items,       \* DialogueParser.known_items
    known_companions,  \* DialogueParser.known_companions
    choice_line,       \* the characters of a `->` line after the arrow
    node_choices,      \* node.choices of the node that line is parsed into
    valid,        \* what the last validate() returned
    pos,          \* the index i of the top-level loop of parse_lines (1-based)
    calls,        \* the loops of the parser that are running, innermost last
    \* command-line validator
    validator,    \* the DialogueValidator made for the file
    vpc,          \* "init" or "validated"
    \* compute-path
    target_node,  \* target_node of the request
    mode,         \* "shortest", "random" or "explore"
    search,       \* the local variables of the running search
    computed,     \* the response of compute_path
    \* replay-path
    rpath,        \* the path of the request
    replayed      \* the response of replay_path

condVars == <<state, condition, cpc, result, cmdline, skip>>
parseVars == <<text, dialogue, ppc, valid>>
searchVars == <<target_node, mode, search, computed>>
replayVars == <<rpath, replayed>>
loopVars == <<pos, calls>>
validatorVars == <<validator, vpc>>
knownVars == <<known_items, known_companions>>
choiceVars == <<choice_line, node_choices>>

\* what the actions of one component leave alone
notCond == <<parseVars, searchVars, replayVars, loopVars, validatorVars, knownVars, choiceVars>>
notParse == <<condVars, searchVars, replayVars, loopVars, validatorVars, knownVars, choiceVars>>
notSearch == <<condVars, replayVars, loopVars, validatorVars, knownVars, choiceVars>>
notReplay == <<condVars, searchVars, loopVars, validatorVars, knownVars, choiceVars>>
notLoop == <<condVars, searchVars, replayVars, validatorVars, knownVars, choiceVars>>
notValidator == <<condVars, parseVars, searchVars, replayVars, loopVars, knownVars, choiceVars>>

vars == <<state, condition, cpc, result, cmdline, skip, text, dialogue, ppc, valid,
          known_items, known_companions, choice_line, node_choices, pos, calls, validator, vpc,
          target_node, mode,
          search, computed, rpath, replayed>>

-----------------------------------------------------------------------------
(* Bounds *)

\* integer literals and initial integer values are drawn from 0..MaxInt
MaxInt == 2
\* string literals are numbered 1..NumStr
NumStr == 1
\* a text has at most MaxLines lines
MaxLines == 4

VarNames == {"x", "y"}
ItemNames == {"k"}
CompNames == {"p"}

-----------------------------------------------------------------------------
(* Values of variables: Dict[str, Any] holding bool, int or str *)

NoneV == [t |-> "none", v |-> 0]
BoolV(b) == [t |-> "bool", v |-> IF b THEN 1 ELSE 0]
IntV(n) == [t |-> "int", v |-> n]
StrV(s) == [t |-> "str", v |-> s]

\* The text of a string literal written with its quotes, "abc": a string
\* that differs from abc by the two quote characters.
Quoted(s) == s + NumStr

\* isinstance(current, (int, float)): bool is a subclass of int
IsNumber(val) == val.t \in {"bool", "int"}

\* Python truthiness of a value (strings stored by set/grant are never empty)
Truthy(val) == IF IsNumber(val) THEN val.v # 0 ELSE val.t = "str"

WebGameState(vs, inv, comp) == [variables |-> vs, inventory |-> inv, companions |-> comp]

EmptyState == WebGameState([n \in VarNames |-> NoneV], {}, {})

-----------------------------------------------------------------------------
(* Conditions *)

NoAtom == [k |-> "nil", x |-> "", n |-> 0]
Atom(k, x, n) == [k |-> k, x |-> x, n |-> n]

NoCond == [k |-> "none", a |-> NoAtom, b |-> NoAtom]
One(a) == [k |-> "atom", a |-> a, b |-> NoAtom]
And(a, b) == [k |-> "and", a |-> a, b |-> b]
Or(a, b) == [k |-> "or", a |-> a, b |-> b]

CmpOps == {"ge", "gt", "le", "lt"}

AtomsOf(c) == IF c.k = "none" THEN {} ELSE IF c.k = "atom" THEN {c.a} ELSE {c.a, c.b}

\* re.findall(r"not\s+(\w+)", condition): the names that directly follow a "!"
NotVars(c) == {a.x : a \in {a \in AtomsOf(c) : a.k = "not"}}

\* "!=" is rewritten to "not =" by condition.replace("!", "not "), which
\* the Python parser rejects: the whole expression fails to compile.
SyntaxError(c) == \E a \in AtomsOf(c) : a.k = "ne"

Compare(op, l, r) ==
    IF op = "ge" THEN l >= r
    ELSE IF op = "gt" THEN l > r
    ELSE IF op = "le" THEN l <= r
    ELSE l < r

\* One operand of the rewritten expression under `context`:
\* "T" / "F" its truthiness, "E" when evaluating it raises.
\* `defaulted` are the names the context holds as False although the state
\* has no such variable.
EvalAtom(st, a, defaulted) ==
    LET raw == IF a.x \in VarNames THEN st.variables[a.x] ELSE NoneV
        val == IF raw = NoneV /\ a.x \in defaulted THEN BoolV(FALSE) ELSE raw
        tf(b) == IF b THEN "T" ELSE "F"
    IN CASE a.k = "has_item" -> tf(a.x \in st.inventory)
         [] a.k = "companion" -> tf(a.x \in st.companions)
         [] a.k = "flag" -> IF val = NoneV THEN "E" ELSE tf(Truthy(val))
         [] a.k = "not" -> IF val = NoneV THEN "E" ELSE tf(~Truthy(val))
         [] a.k \in CmpOps ->
                \* NameError for an absent name, TypeError for str against int
                IF ~IsNumber(val) THEN "E" ELSE tf(Compare(a.k, val.v, a.n))
         [] a.k = "eq" -> IF val = NoneV THEN "E" ELSE tf(IsNumber(val) /\ val.v = a.n)
         \* x == true / x == false: the names true and false are not Python names
         [] a.k = "eqbool" -> "E"
         [] a.k = "eqstr" -> IF val = NoneV THEN "E" ELSE tf(val = StrV(a.n))
         [] OTHER -> "E"

\* eval() of the rewritten expression: `and` / `or` short-circuit left to right
EvalExpr(st, c, defaulted) ==
    IF c.k = "none" THEN "T"
    ELSE IF SyntaxError(c) THEN "E"
    ELSE LET ra == EvalAtom(st, c.a, defaulted)
         IN CASE c.k = "atom" -> ra
              [] c.k = "and" -> IF ra = "T" THEN EvalAtom(st, c.b, defaulted) ELSE ra
              [] c.k = "or" -> IF ra = "F" THEN EvalAtom(st, c.b, defaulted) ELSE ra

\* WebGameState.evaluate_condition: only the names after "not" are defaulted
evaluate_condition(st, c) == EvalExpr(st, c, NotVars(c)) = "T"

\* GameState.evaluate_condition (CLI): every name of the condition that the
\* state does not hold is defaulted to False
cli_evaluate_condition(st, c) == EvalExpr(st, c, VarNames) = "T"

-----------------------------------------------------------------------------
(* grant_condition *)

SetVar(st, x, val) == [st EXCEPT !.variables[x] = val]

\* self.variables.get(var_name, 0)
GetOr0(st, x) == IF st.variables[x] = NoneV THEN IntV(0) ELSE st.variables[x]

\* Mutant of GrantAtom: a comparison always stores its boundary value
GrantAtomAlwaysSets(st, a) ==
    CASE a.k = "has_item" -> [st EXCEPT !.inventory = @ \cup {a.x}]
      [] a.k = "companion" -> [st EXCEPT !.companions = @ \cup {a.x}]
      [] a.k = "not" -> SetVar(st, a.x, BoolV(FALSE))
      [] a.k = "ge" -> SetVar(st, a.x, IntV(a.n))
      [] a.k = "gt" -> SetVar(st, a.x, IntV(a.n + 1))
      [] a.k = "le" -> SetVar(st, a.x, IntV(a.n))
      [] a.k = "lt" -> SetVar(st, a.x, IntV(a.n - 1))
      [] a.k = "eq" -> SetVar(st, a.x, IntV(a.n))
      [] a.k = "eqbool" -> SetVar(st, a.x, BoolV(a.n = 1))
      [] a.k = "eqstr" -> SetVar(st, a.x, StrV(Quoted(a.n)))
      [] a.k = "flag" -> SetVar(st, a.x, BoolV(TRUE))
      [] OTHER -> st

GrantAtom(st, a) ==
    CASE a.k = "has_item" -> [st EXCEPT !.inventory = @ \cup {a.x}]
      [] a.k = "companion" -> [st EXCEPT !.companions = @ \cup {a.x}]
      [] a.k = "not" -> SetVar(st, a.x, BoolV(FALSE))
      [] a.k = "ge" ->
            LET current == GetOr0(st, a.x)
            IN IF ~IsNumber(current) \/ current.v < a.n THEN SetVar(st, a.x, IntV(a.n)) ELSE st
      [] a.k = "gt" ->
            LET current == GetOr0(st, a.x)
            IN IF ~IsNumber(current) \/ current.v <= a.n THEN SetVar(st, a.x, IntV(a.n + 1)) ELSE st
      [] a.k = "le" ->
            LET current == GetOr0(st, a.x)
            IN IF ~IsNumber(current) \/ current.v > a.n THEN SetVar(st, a.x, IntV(a.n)) ELSE st
      [] a.k = "lt" ->
            LET current == GetOr0(st, a.x)
            IN IF ~IsNumber(current) \/ current.v >= a.n THEN SetVar(st, a.x, IntV(a.n - 1)) ELSE st
      [] a.k = "eq" -> SetVar(st, a.x, IntV(a.n))
      [] a.k = "eqbool" -> SetVar(st, a.x, BoolV(a.n = 1))
      \* int('"abc"') fails: the literal is stored as written, quotes included
      [] a.k = "eqstr" -> SetVar(st, a.x, StrV(Quoted(a.n)))
      [] a.k = "flag" -> SetVar(st, a.x, BoolV(TRUE))
      \* "x != N" matches none of the patterns
      [] OTHER -> st

\* Mutant of grant_condition: a || b grants both operands
grant_condition_both(st, c) ==
    CASE c.k = "none" -> st
      [] c.k = "atom" -> GrantAtom(st, c.a)
      [] c.k = "and" -> GrantAtom(GrantAtom(st, c.a), c.b)
      [] c.k = "or" -> GrantAtom(GrantAtom(st, c.a), c.b)

grant_condition(st, c) ==
    CASE c.k = "none" -> st
      [] c.k = "atom" -> GrantAtom(st, c.a)
      [] c.k = "and" -> GrantAtom(GrantAtom(st, c.a), c.b)
      [] c.k = "or" -> GrantAtom(st, c.a)

-----------------------------------------------------------------------------
(* State model: execute_command *)

Cmd(c, name, val) == [cmd |-> c, name |-> name, val |-> val]

\* current + amount / current - amount raises TypeError when the variable
\* holds a str (bool is an int in Python); int(parts[3]) fails first, with
\* the ValueError that the handler swallows, when the amount is no integer
CommandRaises(st, command) ==
    /\ command.cmd \in {"add", "sub"}
    /\ command.val.t = "int"
    /\ GetOr0(st, command.name).t = "str"

\* Mutant of execute_command: skip_if_exists is not looked at
execute_command_overwrite(st, command, skip_if_exists) ==
    CASE command.cmd = "set" -> SetVar(st, command.name, command.val)
      [] command.cmd = "add" ->
            IF command.val.t # "int" THEN st
            ELSE SetVar(st, command.name, IntV(GetOr0(st, command.name).v + command.val.v))
      [] command.cmd = "sub" ->
            IF command.val.t # "int" THEN st
            ELSE SetVar(st, command.name, IntV(GetOr0(st, command.name).v - command.val.v))
      [] command.cmd = "give_item" -> [st EXCEPT !.inventory = @ \cup {command.name}]
      [] command.cmd = "remove_item" -> [st EXCEPT !.inventory = @ \ {command.name}]
      [] command.cmd = "add_companion" -> [st EXCEPT !.companions = @ \cup {command.name}]
      [] command.cmd = "remove_companion" -> [st EXCEPT !.companions = @ \ {command.name}]
      [] OTHER -> st

\* One command applied to a state in which it does not raise
execute_command(st, command, skip_if_exists) ==
    CASE command.cmd = "set" ->
            IF skip_if_exists /\ st.variables[command.name] # NoneV THEN st
            ELSE SetVar(st, command.name, command.val)
      [] command.cmd = "add" ->
            IF command.val.t # "int" THEN st
            ELSE SetVar(st, command.name, IntV(GetOr0(st, command.name).v + command.val.v))
      [] command.cmd = "sub" ->
            IF command.val.t # "int" THEN st
            ELSE SetVar(st, command.name, IntV(GetOr0(st, command.name).v - command.val.v))
      [] command.cmd = "give_item" -> [st EXCEPT !.inventory = @ \cup {command.name}]
      [] command.cmd = "remove_item" -> [st EXCEPT !.inventory = @ \ {command.name}]
      [] command.cmd = "add_companion" -> [st EXCEPT !.companions = @ \cup {command.name}]
      [] command.cmd = "remove_companion" -> [st EXCEPT !.companions = @ \ {command.name}]
      [] OTHER -> st

\* for cmd in commands: state.execute_command(cmd), up to the first command
\* that raises: [st |-> the state reached, raised |-> whether one raised]
RECURSIVE RunCommands(_, _)
RunCommands(st, commands) ==
    IF commands = <<>> THEN [st |-> st, raised |-> FALSE]
    ELSE IF CommandRaises(st, Head(commands)) THEN [st |-> st, raised |-> TRUE]
    ELSE RunCommands(execute_command(st, Head(commands), FALSE), Tail(commands))

-----------------------------------------------------------------------------
(* Parser: the data model *)

NoCmd == Cmd("", "", NoneV)

\* One text line by its shape.  k is
\*   "blank"    empty line or # comment
\*   "bracket"  [id]: id is "characters", "state", "entry:NAME" or a node label
\*   "cmd"      *command
\*   "choice"   -> id {cond}
\*   "trigger"  @talk:id {cond}   (id = "" when the target is missing)
\*   "end"      @end
\*   "say"      id: "text" {cond}
\*   "sayopen"  id: "text          (the quote is not closed on the line)
\*   "choiceopen"  -> id: "text    (the quote is not closed on the line)
\*   "close"    text" {cond}       (a line that closes an open quote)
\*   "route"    cond -> id        (entry route with a condition)
\*   "exit"     <- id
\*   "other"    anything else
Line(k, id, cond, command) == [k |-> k, id |-> id, cond |-> cond, cmd |-> command]

Diag(kind, at, what) == [kind |-> kind, at |-> at, what |-> what]

Trigger(target, cond, n) == [target |-> target, condition |-> cond, line_number |-> n]
Choice(target, cond, n) == [target |-> target, condition |-> cond, line_number |-> n]
DialogueLine(speaker, cond, n) == [speaker |-> speaker, condition |-> cond, line_number |-> n]
EntryRoute(cond, target, n) == [condition |-> cond, target |-> target, line_number |-> n]

DialogueNode(id, n) ==
    [id |-> id, lines |-> <<>>, choices |-> <<>>, commands |-> <<>>, triggers |-> <<>>,
     is_end |-> FALSE, line_number |-> n]

EntryGroup(name, n) == [name |-> name, routes |-> <<>>, exits |-> <<>>, line_number |-> n]

\* start_node: Optional[str] = None
NoStart == "None"

\* `not start_node`: None and the empty label are both falsy
Falsy(id) == id \in {NoStart, ""}

\* the text of the condition holds a ':' (has_item:k, companion:p)
HasColon(cond) == \E a \in {cond.a, cond.b} : a.k \in {"has_item", "companion"}

\* the text of the condition holds a '"' (x == "abc")
HasQuote(cond) == \E a \in {cond.a, cond.b} : a.k = "eqstr"

\* '"' in stripped
ClosesQuote(line) == line.k \in {"say", "sayopen", "choiceopen", "close"} \/ HasQuote(line.cond)

\* Dialogue(): nodes is the dict, order its keys in insertion order
Dialogue ==
    [characters |-> {}, nodes |-> <<>>, order |-> <<>>, entries |-> <<>>,
     start_node |-> NoStart, initial_state |-> <<>>, errors |-> <<>>, warnings |-> <<>>]

HasNode(dlg, id) == id \in DOMAIN dlg.nodes

\* self.dialogue.nodes[id] = node: a new key goes last, an existing key keeps its place
PutNode(dlg, id, node) ==
    [dlg EXCEPT !.nodes = (id :> node) @@ @,
                !.order = IF HasNode(dlg, id) THEN @ ELSE Append(@, id)]

IsHeader(line) == line.k = "bracket"

\* DialogueValidator(file_path): the fields that item tracking reads and writes
DialogueValidator == [lines |-> <<>>, items_given |-> {}, items_checked |-> {}, warnings |-> <<>>]

RECURSIVE Flatten(_)
Flatten(ss) == IF ss = <<>> THEN <<>> ELSE Head(ss) \o Flatten(Tail(ss))

-----------------------------------------------------------------------------
(* Parser: the section loops.  Each takes the index of the first line it is
   to read and gives back [dlg, i]: the dialogue and the index of the line
   the caller goes on with. *)

\* One line of [characters]: every line with a ':' defines a character, the
\* text before the ':'
characters_line(dlg, line) ==
    CASE line.k = "say" -> [dlg EXCEPT !.characters = @ \cup {line.id}]
      [] line.k = "trigger" -> [dlg EXCEPT !.characters = @ \cup {"@talk"}]
      [] line.k = "route" /\ HasColon(line.cond) ->
            [dlg EXCEPT !.characters = @ \cup {line.cond.a.k}]
      [] line.k = "choice" /\ HasColon(line.cond) ->
            [dlg EXCEPT !.characters = @ \cup {"-> " \o line.id \o " {"}]
      [] line.k = "sayopen" -> [dlg EXCEPT !.characters = @ \cup {line.id}]
      [] line.k = "choiceopen" -> [dlg EXCEPT !.characters = @ \cup {"-> " \o line.id}]
      [] line.k = "close" /\ HasColon(line.cond) ->
            [dlg EXCEPT !.characters = @ \cup {"\" {"}]
      [] OTHER -> dlg

RECURSIVE parse_characters(_, _, _)
parse_characters(lines, i, dlg) ==
    IF i > Len(lines) \/ IsHeader(lines[i]) THEN [dlg |-> dlg, i |-> i]
    ELSE parse_characters(lines, i + 1, characters_line(dlg, lines[i]))

\* One line of [state], line i
state_line(dlg, line, i) ==
    CASE line.k = "blank" -> dlg
      [] line.k = "cmd" -> [dlg EXCEPT !.initial_state = Append(@, line.cmd)]
      [] OTHER -> [dlg EXCEPT !.warnings = Append(@, Diag("state_content", i, ""))]

RECURSIVE parse_state(_, _, _)
parse_state(lines, i, dlg) ==
    IF i > Len(lines) \/ IsHeader(lines[i]) THEN [dlg |-> dlg, i |-> i]
    ELSE parse_state(lines, i + 1, state_line(dlg, lines[i], i))

\* One line of [entry:NAME], line i: [dlg, group]
entry_line(dlg, group, line, i) ==
    LET warn(kind) == [dlg |-> [dlg EXCEPT !.warnings = Append(@, Diag(kind, i, group.name))],
                       group |-> group]
    IN CASE line.k = "blank" -> [dlg |-> dlg, group |-> group]
         [] line.k = "exit" ->
               IF line.id # ""
               THEN [dlg |-> dlg, group |-> [group EXCEPT !.exits = Append(@, line.id)]]
               ELSE warn("empty_exit")
         \* "-> target" is the default route, "cond -> target" a conditional one;
         \* the target is all the text after the arrow, a {cond} included
         [] line.k \in {"choice", "choiceopen", "route"} ->
               IF line.id = "" THEN warn("empty_route")
               ELSE [dlg |-> dlg,
                     group |-> [group EXCEPT !.routes =
                         Append(@, EntryRoute(IF line.k = "route" THEN line.cond ELSE NoCond,
                                              IF line.k = "choice" /\ line.cond # NoCond
                                              THEN line.id \o " {}"
                                              ELSE IF line.k = "choiceopen"
                                              THEN line.id \o ": \""
                                              ELSE line.id, i))]]
         [] OTHER -> warn("entry_content")

RECURSIVE parse_entry_lines(_, _, _, _)
parse_entry_lines(lines, i, dlg, group) ==
    IF i > Len(lines) \/ IsHeader(lines[i]) THEN [dlg |-> dlg, i |-> i, group |-> group]
    ELSE LET r == entry_line(dlg, group, lines[i], i)
         IN parse_entry_lines(lines, i + 1, r.dlg, r.group)

EntryIndex(dlg, name) ==
    IF \E n \in 1..Len(dlg.entries) : dlg.entries[n].name = name
    THEN CHOOSE n \in 1..Len(dlg.entries) : dlg.entries[n].name = name
    ELSE 0

\* after the loop of _parse_entry_group: the two warnings, entries[name] = group
put_entry_group(dlg, group) ==
    LET w1 == IF group.routes = <<>> THEN <<Diag("no_routes", group.line_number, group.name)>> ELSE <<>>
        at == EntryIndex(dlg, group.name)
        w2 == IF at # 0 THEN <<Diag("duplicate_entry", group.line_number, group.name)>> ELSE <<>>
    IN [dlg EXCEPT !.warnings = @ \o w1 \o w2,
                   !.entries = IF at # 0 THEN [@ EXCEPT ![at] = group] ELSE Append(@, group)]

parse_entry_group(lines, start_index, entry_name, definition_line, dlg) ==
    LET r == parse_entry_lines(lines, start_index, dlg, EntryGroup(entry_name, definition_line))
    IN [dlg |-> put_entry_group(r.dlg, r.group), i |-> r.i]

\* _parse_trigger: the Trigger, or an error and no Trigger when the target is missing
parse_trigger(line, line_number, dlg) ==
    IF line.id = ""
    THEN [dlg |-> [dlg EXCEPT !.errors = Append(@, Diag("trigger_missing_target", line_number, ""))],
          triggers |-> <<>>]
    ELSE [dlg |-> dlg, triggers |-> <<Trigger(line.id, line.cond, line_number)>>]

\* _read_multiline_quoted_text from line i on: the condition of the closing
\* line and the index after it, or the end of the input when nothing closes
RECURSIVE read_multiline_quoted_text(_, _)
read_multiline_quoted_text(lines, i) ==
    IF i > Len(lines) THEN [condition |-> NoCond, i |-> i]
    ELSE LET line == lines[i]
         IN IF line.k # "blank" /\ ClosesQuote(line)
            THEN [condition |-> IF line.k \in {"say", "close"} THEN line.cond ELSE NoCond,
                  i |-> i + 1]
            ELSE read_multiline_quoted_text(lines, i + 1)

\* _parse_choice on the choice line at start_index
parse_choice(lines, start_index, node) ==
    LET line == lines[start_index]
        r == read_multiline_quoted_text(lines, start_index + 1)
    IN IF line.k = "choiceopen"
       THEN [node |-> [node EXCEPT !.choices = Append(@, Choice(line.id, r.condition, start_index))],
             i |-> r.i]
       ELSE [node |-> [node EXCEPT !.choices = Append(@, Choice(line.id, line.cond, start_index))],
             i |-> start_index + 1]

\* One pass of the body loop of _parse_node at line i: [dlg, i, node]
body_line(lines, i, dlg, node) ==
    LET line == lines[i]
        same == [dlg |-> dlg, i |-> i + 1, node |-> node]
    IN CASE line.k = "end" -> [same EXCEPT !.node.is_end = TRUE]
         [] line.k = "trigger" ->
               LET t == parse_trigger(line, i, dlg)
               IN [same EXCEPT !.dlg = t.dlg, !.node.triggers = @ \o t.triggers]
         [] line.k = "cmd" -> [same EXCEPT !.node.commands = Append(@, line.cmd)]
         [] line.k \in {"choice", "choiceopen"} ->
               LET c == parse_choice(lines, i, node)
               IN [dlg |-> dlg, i |-> c.i, node |-> c.node]
         \* a '{' that comes before the last '"' is not taken as a condition
         [] line.k = "say" ->
               [same EXCEPT !.node.lines =
                   Append(@, DialogueLine(line.id,
                       IF HasQuote(line.cond) THEN NoCond ELSE line.cond, i))]
         [] line.k = "sayopen" ->
               LET r == read_multiline_quoted_text(lines, i + 1)
               IN [dlg |-> dlg, i |-> r.i,
                   node |-> [node EXCEPT !.lines =
                               Append(@, DialogueLine(line.id, r.condition, i))]]
         \* "has_item:k -> id" holds a ':' and is read as a speaker line
         [] line.k \in {"route", "close"} /\ HasColon(line.cond) ->
               [same EXCEPT !.node.lines =
                   Append(@, DialogueLine(IF line.k = "route" THEN line.cond.a.k ELSE "\" {",
                                          NoCond, i))]
         [] OTHER -> same

\* The body loop of _parse_node: [dlg, i, node], node being the primary node
RECURSIVE parse_body(_, _, _, _)
parse_body(lines, i, dlg, node) ==
    IF i > Len(lines) \/ IsHeader(lines[i]) THEN [dlg |-> dlg, i |-> i, node |-> node]
    ELSE LET it == body_line(lines, i, dlg, node)
         IN parse_body(lines, it.i, it.dlg, it.node)

\* Mutant of AliasNode: the alias is built before @end is known
AliasNodeFreshEnd(primary_node, node_id) ==
    [primary_node EXCEPT !.id = node_id, !.is_end = FALSE]

\* DialogueNode(id=node_id, lines=primary_node.lines, ...): the alias of a stacked label
AliasNode(primary_node, node_id) == [primary_node EXCEPT !.id = node_id]

RECURSIVE PutAliases(_, _, _)
PutAliases(dlg, primary_node, node_ids) ==
    IF node_ids = <<>> THEN dlg
    ELSE PutAliases(PutNode(dlg, Head(node_ids), AliasNode(primary_node, Head(node_ids))),
                    primary_node, Tail(node_ids))

\* after the body loop: the primary node as it now is, and its aliases
put_node(dlg, primary_node, node_ids) ==
    PutAliases(PutNode(dlg, node_ids[1], primary_node), primary_node, Tail(node_ids))

parse_node(lines, start_index, node_ids, dlg) ==
    LET primary == DialogueNode(node_ids[1], start_index - 1)
        r == parse_body(lines, start_index, PutNode(dlg, node_ids[1], primary), primary)
    IN [dlg |-> put_node(r.dlg, r.node, node_ids), i |-> r.i]

\* while j < len(lines) and lines[j] is bracketed: the index after the stacked labels
RECURSIVE StackEnd(_, _)
StackEnd(lines, j) ==
    IF j <= Len(lines) /\ IsHeader(lines[j]) THEN StackEnd(lines, j + 1) ELSE j

IsEntryHeader(id) == id = "entry:e"
EntryName(id) == "e"

\* The top-level loop of parse_lines from line i on
RECURSIVE parse_top(_, _, _)
parse_top(lines, i, dlg) ==
    IF i > Len(lines) THEN dlg
    ELSE LET line == lines[i]
         IN CASE line.k = "bracket" /\ line.id = "characters" ->
                    LET r == parse_characters(lines, i + 1, dlg) IN parse_top(lines, r.i, r.dlg)
              [] line.k = "bracket" /\ line.id = "state" ->
                    LET r == parse_state(lines, i + 1, dlg) IN parse_top(lines, r.i, r.dlg)
              [] line.k = "bracket" /\ IsEntryHeader(line.id) ->
                    LET r == parse_entry_group(lines, i + 1, EntryName(line.id), i, dlg)
                    IN parse_top(lines, r.i, r.dlg)
              [] line.k = "bracket" /\ line.id \notin {"characters", "state"} /\ ~IsEntryHeader(line.id) ->
                    LET j == StackEnd(lines, i + 1)
                        node_ids == [n \in 1..(j - i) |-> lines[i + n - 1].id]
                        r == parse_node(lines, j, node_ids, dlg)
                    IN parse_top(lines, r.i, r.dlg)
              [] OTHER -> parse_top(lines, i + 1, dlg)

\* the closing block of parse_lines: the default of start_node
set_start_node(d) ==
    IF Falsy(d.start_node) /\ d.order # <<>>
    THEN [d EXCEPT !.start_node = IF HasNode(d, "start") THEN "start" ELSE d.order[1]]
    ELSE d

\* Mutant of parse_lines: the first node is the start node whatever its name
parse_lines_first_node(lines) ==
    LET d == parse_top(lines, 1, Dialogue)
    IN IF Falsy(d.start_node) /\ d.order # <<>>
       THEN [d EXCEPT !.start_node = d.order[1]]
       ELSE d

parse_lines(lines) == set_start_node(parse_top(lines, 1, Dialogue))

-----------------------------------------------------------------------------
(* The known names: what parse_lines hands to _track_items_and_companions *)

Known(items, companions) == [items |-> items, companions |-> companions]

\* _track_items_and_companions on the text of a command
track_command(known, command) ==
    CASE command.cmd \in {"give_item", "remove_item"} ->
            [known EXCEPT !.items = @ \cup {command.name}]
      [] command.cmd \in {"add_companion", "remove_companion"} ->
            [known EXCEPT !.companions = @ \cup {command.name}]
      [] OTHER -> known

\* _track_items_and_companions on the text of a condition: every has_item:X
\* and every companion:X in it
track_condition(known, cond) ==
    Known(known.items \cup {a.x : a \in {b \in AtomsOf(cond) : b.k = "has_item"}},
          known.companions \cup {a.x : a \in {b \in AtomsOf(cond) : b.k = "companion"}})

RECURSIVE track_commands(_, _)
track_commands(known, commands) ==
    IF commands = <<>> THEN known
    ELSE track_commands(track_command(known, Head(commands)), Tail(commands))

\* the conditions of a list of choices, triggers or routes
RECURSIVE track_conditions(_, _)
track_conditions(known, items) ==
    IF items = <<>> THEN known
    ELSE track_conditions(track_condition(known, Head(items).condition), Tail(items))

\* the calls made while the body of one node is read: at every command,
\* trigger and choice that is appended, none at a speaker line
track_node(known, node) ==
    track_conditions(track_conditions(track_commands(known, node.commands), node.triggers),
                     node.choices)

\* the calls made by parse_lines from line i on
RECURSIVE track_top(_, _, _)
track_top(lines, i, known) ==
    IF i > Len(lines) THEN known
    ELSE LET line == lines[i]
         IN CASE line.k = "bracket" /\ line.id = "characters" ->
                    track_top(lines, parse_characters(lines, i + 1, Dialogue).i, known)
              [] line.k = "bracket" /\ line.id = "state" ->
                    LET r == parse_state(lines, i + 1, Dialogue)
                    IN track_top(lines, r.i, track_commands(known, r.dlg.initial_state))
              [] line.k = "bracket" /\ IsEntryHeader(line.id) ->
                    LET r == parse_entry_lines(lines, i + 1, Dialogue,
                                               EntryGroup(EntryName(line.id), i))
                    IN track_top(lines, r.i, track_conditions(known, r.group.routes))
              [] line.k = "bracket" /\ line.id \notin {"characters", "state"} /\ ~IsEntryHeader(line.id) ->
                    LET j == StackEnd(lines, i + 1)
                        r == parse_body(lines, j, Dialogue, DialogueNode(line.id, j - 1))
                    IN track_top(lines, r.i, track_node(known, r.node))
              [] OTHER -> track_top(lines, i + 1, known)

\* known_items and known_companions after parse_lines(lines): the sets are
\* made in __init__ and parse_lines does not empty them
tracked(lines, items, companions) == track_top(lines, 1, Known(items, companions))

-----------------------------------------------------------------------------
(* validate() *)

\* _find_reachable_nodes: the walk from the seeds along Choice edges
RECURSIVE Walk(_, _, _)
Walk(dlg, visited, to_visit) ==
    IF to_visit = <<>> THEN visited
    ELSE LET current == Head(to_visit)
         IN IF current \in visited \/ current = "END" THEN Walk(dlg, visited, Tail(to_visit))
            ELSE LET v == visited \cup {current}
                     cs == IF HasNode(dlg, current) THEN dlg.nodes[current].choices ELSE <<>>
                     next == SelectSeq([n \in 1..Len(cs) |-> cs[n].target],
                                       LAMBDA t : t # "END" /\ t \notin v)
                 IN Walk(dlg, v, Tail(to_visit) \o next)

\* Mutant of find_reachable_nodes: the walk is seeded from start_node only
find_reachable_nodes_from_start(dlg) ==
    Walk(dlg, {}, IF ~Falsy(dlg.start_node) THEN <<dlg.start_node>> ELSE <<>>)

find_reachable_nodes(dlg) ==
    LET seeds1 == IF ~Falsy(dlg.start_node) THEN <<dlg.start_node>> ELSE <<>>
        routes == Flatten([g \in 1..Len(dlg.entries) |->
                     [n \in 1..Len(dlg.entries[g].routes) |-> dlg.entries[g].routes[n].target]])
        trig == SelectSeq(dlg.order, LAMBDA id : dlg.nodes[id].triggers # <<>>)
    IN Walk(dlg, {}, seeds1 \o routes \o trig)

has_path_to_end(dlg) ==
    \E id \in DOMAIN dlg.nodes :
        \E n \in 1..Len(dlg.nodes[id].choices) : dlg.nodes[id].choices[n].target = "END"

\* the undefined-target errors of one node, in choice order
UndefinedTargets(dlg, id) ==
    LET cs == dlg.nodes[id].choices
        bad == SelectSeq(cs, LAMBDA c : c.target # "END" /\ ~HasNode(dlg, c.target))
    IN [n \in 1..Len(bad) |-> Diag("undefined_target", bad[n].line_number, id)]

\* Mutant of ChoiceErrors: only the first choice of each node is checked
ChoiceErrorsFirstOnly(dlg) ==
    Flatten([n \in 1..Len(dlg.order) |->
        LET cs == dlg.nodes[dlg.order[n]].choices
        IN IF cs # <<>> /\ cs[1].target # "END" /\ ~HasNode(dlg, cs[1].target)
           THEN <<Diag("undefined_target", cs[1].line_number, dlg.order[n])>> ELSE <<>>])

ChoiceErrors(dlg) == Flatten([n \in 1..Len(dlg.order) |-> UndefinedTargets(dlg, dlg.order[n])])

SpeakerWarnings(dlg) ==
    Flatten([n \in 1..Len(dlg.order) |->
        LET ls == dlg.nodes[dlg.order[n]].lines
            bad == SelectSeq(ls, LAMBDA l : l.speaker \notin dlg.characters)
        IN [m \in 1..Len(bad) |-> Diag("undefined_speaker", bad[m].line_number, dlg.order[n])]])

\* Mutant of RouteErrors: only the default routes are checked
RouteErrorsDefaultOnly(dlg) ==
    Flatten([g \in 1..Len(dlg.entries) |->
        LET bad == SelectSeq(dlg.entries[g].routes,
                             LAMBDA r : r.condition = NoCond /\ ~HasNode(dlg, r.target))
        IN [m \in 1..Len(bad) |-> Diag("undefined_route_target", bad[m].line_number, dlg.entries[g].name)]])

RouteErrors(dlg) ==
    Flatten([g \in 1..Len(dlg.entries) |->
        LET bad == SelectSeq(dlg.entries[g].routes, LAMBDA r : ~HasNode(dlg, r.target))
        IN [m \in 1..Len(bad) |-> Diag("undefined_route_target", bad[m].line_number, dlg.entries[g].name)]])

EntryWarnings(dlg) ==
    Flatten([g \in 1..Len(dlg.entries) |->
        LET grp == dlg.entries[g]
            bad == SelectSeq(grp.exits, LAMBDA e : ~HasNode(dlg, e))
        IN [m \in 1..Len(bad) |-> Diag("undefined_exit", 0, bad[m])]
           \o (IF \E n \in 1..Len(grp.routes) : grp.routes[n].condition = NoCond THEN <<>>
               ELSE <<Diag("no_default_route", 0, grp.name)>>)])

UnreachableWarnings(dlg) ==
    LET reachable == find_reachable_nodes(dlg)
        bad == SelectSeq(dlg.order, LAMBDA id : id \notin reachable /\ id # dlg.start_node)
    IN [m \in 1..Len(bad) |-> Diag("unreachable", 0, bad[m])]

\* Mutant of ValidateResult: errors recorded before the pass are not counted
ValidateResultFlagOnly(choice_errors, route_errors, errors) ==
    choice_errors = <<>> /\ route_errors = <<>>

\* return valid and len(self.dialogue.errors) == 0
ValidateResult(choice_errors, route_errors, errors) ==
    (choice_errors = <<>> /\ route_errors = <<>>) /\ Len(errors) = 0

\* validate(): [dlg |-> the dialogue with the diagnostics added, valid |-> the result]
validate(dlg) ==
    LET ce == ChoiceErrors(dlg)
        re == RouteErrors(dlg)
        d == [dlg EXCEPT
                !.errors = @ \o ce \o re,
                !.warnings = @ \o SpeakerWarnings(dlg) \o EntryWarnings(dlg)
                               \o UnreachableWarnings(dlg)
                               \o (IF has_path_to_end(dlg) THEN <<>> ELSE <<Diag("no_end", 0, "")>>)]
    IN [dlg |-> d, valid |-> ValidateResult(ce, re, d.errors)]

-----------------------------------------------------------------------------
(* Traversal engine: the three searches of compute-path *)

\* frozenset(new_state.variables.items()): True and 1 (False and 0) are equal
\* and hash alike, so they are one member of a visited set
SigVal(val) == IF val.t = "bool" THEN IntV(val.v) ELSE val
SigVars(st) == [n \in VarNames |-> SigVal(st.variables[n])]

\* state_sig = (next_node, frozenset(inventory), frozenset(companions), frozenset(variables.items()))
Sig(node, st) == <<node, st.inventory, st.companions, SigVars(st)>>

\* the signature the searches put in `visited` for the start node
StartSig(node, st) == <<node, {}, {}, SigVars(st)>>

\* a frontier entry: (current_node, path, state, used_triggers)
Entry(node, path, st, used) == [node |-> node, path |-> path, state |-> st, used |-> used]

NoResult == [found |-> FALSE, path |-> <<>>, state |-> EmptyState]
Result(path, st) == [found |-> TRUE, path |-> path, state |-> st]

\* The variables of one search call.  pc is "init" before the call, "loop"
\* inside the while loop, "done" after a return, "raised" after an exception;
\* expanded lists the signatures of the entries whose choices were expanded.
SearchState(pc, frontier, visited, res) ==
    [pc |-> pc, frontier |-> frontier, visited |-> visited, all_paths |-> <<>>,
     iterations |-> 0, broke |-> FALSE, res |-> res, expanded |-> <<>>]

NotStarted == SearchState("init", <<>>, {}, NoResult)
Returned(S, res) == [S EXCEPT !.pc = "done", !.res = res]
Raised(S) == [S EXCEPT !.pc = "raised"]

max_iterations == 10000
max_paths == 20
trigger_bonus == 5
jitter_range == 3

\* trigger_nodes: the nodes with triggers, in dict order
trigger_nodes(dlg) == SelectSeq(dlg.order, LAMBDA id : dlg.nodes[id].triggers # <<>>)

Cand(kind, node, st, used, score) ==
    [kind |-> kind, node |-> node, state |-> st, used |-> used, score |-> score]

Skip == Cand("skip", "", EmptyState, {}, 0)

\* score of a choice destination, without the random jitter
ChoiceScore(dlg, id) ==
    Len(dlg.nodes[id].lines) * 2 + Len(dlg.nodes[id].choices) + Len(dlg.nodes[id].commands)

\* score of a trigger-jump destination, without the random jitter
JumpScore(dlg, id) ==
    Len(dlg.nodes[id].lines) * 2 + Len(dlg.nodes[id].choices) + trigger_bonus

\* Mutant of ChoiceCand: the condition of the choice is not evaluated
ChoiceCandUnchecked(dlg, e, c) ==
    IF c.target = "END" THEN Cand("end", "END", e.state, e.used, 0)
    ELSE IF ~HasNode(dlg, c.target) THEN Skip
    ELSE LET r == RunCommands(e.state, dlg.nodes[c.target].commands)
         IN IF r.raised THEN Cand("raise", c.target, r.st, e.used, 0)
            ELSE Cand("next", c.target, r.st, e.used, ChoiceScore(dlg, c.target))

\* What one choice of the expanded node gives: nothing ("skip"), the END
\* sentinel ("end"), an exception in the destination's commands ("raise"),
\* or the next node with the state after the destination's commands ("next")
ChoiceCand(dlg, e, c) ==
    IF ~evaluate_condition(e.state, c.condition) THEN Skip
    ELSE IF c.target = "END" THEN Cand("end", "END", e.state, e.used, 0)
    ELSE IF ~HasNode(dlg, c.target) THEN Skip
    ELSE LET r == RunCommands(e.state, dlg.nodes[c.target].commands)
         IN IF r.raised THEN Cand("raise", c.target, r.st, e.used, 0)
            ELSE Cand("next", c.target, r.st, e.used, ChoiceScore(dlg, c.target))

ChoiceCands(dlg, e) ==
    LET cs == dlg.nodes[e.node].choices
    IN [n \in 1..Len(cs) |-> ChoiceCand(dlg, e, cs[n])]

\* Mutant of JumpCand: a trigger node already jumped to is taken again
JumpCandAgain(dlg, e, id) ==
    LET granted == grant_condition(e.state, dlg.nodes[id].triggers[1].condition)
        r == RunCommands(granted, dlg.nodes[id].commands)
    IN IF r.raised THEN Cand("raise", id, r.st, e.used, 0)
       ELSE Cand("next", id, r.st, e.used \cup {id}, JumpScore(dlg, id))

\* The jump from an @end node to one trigger node: the condition of its
\* first trigger is granted, then its commands run
JumpCand(dlg, e, id) ==
    IF id \in e.used THEN Skip
    ELSE LET granted == grant_condition(e.state, dlg.nodes[id].triggers[1].condition)
             r == RunCommands(granted, dlg.nodes[id].commands)
         IN IF r.raised THEN Cand("raise", id, r.st, e.used, 0)
            ELSE Cand("next", id, r.st, e.used \cup {id}, JumpScore(dlg, id))

JumpCands(dlg, e) ==
    IF dlg.nodes[e.node].is_end
    THEN LET tn == trigger_nodes(dlg) IN [n \in 1..Len(tn) |-> JumpCand(dlg, e, tn[n])]
    ELSE <<>>

\* for ... : if state_sig not in visited: visited.add(state_sig); append(...)
RECURSIVE PushAll(_, _, _, _)
PushAll(cands, e, vis, fr) ==
    IF cands = <<>> THEN [visited |-> vis, frontier |-> fr]
    ELSE LET c == Head(cands)
             s == Sig(c.node, c.state)
         IN IF s \in vis THEN PushAll(Tail(cands), e, vis, fr)
            ELSE PushAll(Tail(cands), e, vis \cup {s},
                         Append(fr, Entry(c.node, Append(e.path, c.node), c.state, c.used)))

Identity(n) == [i \in 1..n |-> i]

\* The orders in which a search may push the next states `nexts`:
\* shortest keeps the order of the choices, random.shuffle gives any order,
\* and explore sorts by score + random.random() * 3, lowest first: i can
\* come before j only if score(i) < score(j) + 3
Orders(policy, nexts) ==
    LET n == Len(nexts)
    IN CASE policy = "shortest" -> {Identity(n)}
         [] policy = "random" -> Permutations(1..n)
         [] policy = "explore" ->
                {p \in Permutations(1..n) :
                    \A i, j \in 1..n : i < j => nexts[p[i]].score < nexts[p[j]].score + jitter_range}

\* the entry the loop takes: queue.popleft() for shortest, stack.pop() otherwise
Taken(policy, S) == IF policy = "shortest" THEN Head(S.frontier) ELSE S.frontier[Len(S.frontier)]
Rest(policy, S) ==
    IF policy = "shortest" THEN Tail(S.frontier) ELSE SubSeq(S.frontier, 1, Len(S.frontier) - 1)

\* The searches up to their loop: [state] commands, the special targets, the
\* start node's commands, the first frontier entry and its visited signature
search_start(dlg, target) ==
    LET i0 == RunCommands(EmptyState, dlg.initial_state)
        start == dlg.start_node
        r == IF HasNode(dlg, start) THEN RunCommands(i0.st, dlg.nodes[start].commands) ELSE i0
    IN IF i0.raised THEN Raised(NotStarted)
       ELSE IF target = start
            THEN IF r.raised THEN Raised(NotStarted) ELSE Returned(NotStarted, Result(<<target>>, r.st))
       ELSE IF ~HasNode(dlg, target) /\ target # "END" THEN Returned(NotStarted, NoResult)
       ELSE IF r.raised THEN Raised(NotStarted)
       ELSE SearchState("loop", <<Entry(start, <<start>>, r.st, {})>>, {StartSig(start, r.st)}, NoResult)

\* One iteration of the while loop, the next states pushed in the order `order`
search_step(dlg, target, policy, S, order) ==
    LET e == Taken(policy, S)
        rest == Rest(policy, S)
        S1 == [S EXCEPT !.frontier = rest,
                        !.iterations = IF policy = "explore" THEN @ + 1 ELSE @]
    IN IF e.node = target
       THEN IF policy = "explore"
            THEN [S1 EXCEPT !.all_paths = Append(@, Result(e.path, e.state)),
                            !.broke = Len(S.all_paths) + 1 >= max_paths]
            ELSE Returned(S1, Result(e.path, e.state))
       ELSE IF ~HasNode(dlg, e.node) THEN S1
       ELSE LET cands == ChoiceCands(dlg, e) \o JumpCands(dlg, e)
                \* the first candidate that ends the call
                stops == {n \in 1..Len(cands) :
                            \/ cands[n].kind = "raise"
                            \/ cands[n].kind = "end" /\ target = "END" /\ policy # "explore"}
                first == CHOOSE n \in stops : \A m \in stops : n <= m
                ends == SelectSeq(cands, LAMBDA c : c.kind = "end" /\ target = "END")
                nexts == SelectSeq(cands, LAMBDA c : c.kind = "next")
                pushed == PushAll([n \in 1..Len(nexts) |-> nexts[order[n]]], e, S.visited, rest)
                S2 == [S1 EXCEPT !.expanded = Append(@, Sig(e.node, e.state))]
            IN IF stops # {}
               THEN IF cands[first].kind = "raise" THEN Raised(S2)
                    ELSE Returned(S2, Result(Append(e.path, "END"), e.state))
               ELSE [S2 EXCEPT !.frontier = pushed.frontier,
                               !.visited = pushed.visited,
                               !.all_paths = IF policy = "explore"
                                             THEN @ \o [n \in 1..Len(ends) |->
                                                          Result(Append(e.path, "END"), e.state)]
                                             ELSE @]

\* the next states of the entry the loop takes next (none when it is not expanded)
NextStates(dlg, target, policy, S) ==
    LET e == Taken(policy, S)
    IN IF e.node = target \/ ~HasNode(dlg, e.node) THEN <<>>
       ELSE SelectSeq(ChoiceCands(dlg, e) \o JumpCands(dlg, e), LAMBDA c : c.kind = "next")

\* while queue / while stack and iterations < max_iterations (and no break)
LoopGoesOn(policy, S) ==
    /\ S.pc = "loop"
    /\ S.frontier # <<>>
    /\ policy = "explore" => (S.iterations < max_iterations /\ ~S.broke)

\* all_paths.sort(key=len, reverse=True); top_half = all_paths[: max(1, len // 2)]:
\* the indices of all_paths that make the top half (the sort is stable)
TopHalf(all_paths) ==
    LET n == Len(all_paths)
        half == IF n \div 2 >= 1 THEN n \div 2 ELSE 1
        before(i) == {j \in 1..n : \/ Len(all_paths[j].path) > Len(all_paths[i].path)
                                   \/ Len(all_paths[j].path) = Len(all_paths[i].path) /\ j < i}
    IN {i \in 1..n : Cardinality(before(i)) < half}

\* What the searches return once the loop has ended; `pick` is the index
\* random.choice takes in explore policy
search_finish(policy, S, pick) ==
    IF policy = "explore" /\ S.all_paths # <<>> THEN Returned(S, S.all_paths[pick])
    ELSE Returned(S, NoResult)

Picks(policy, S) == IF policy = "explore" /\ S.all_paths # <<>> THEN TopHalf(S.all_paths) ELSE {1}

\* find_valid_path_to_node as a whole: the loop run to its end
RECURSIVE RunShortest(_, _, _)
RunShortest(dlg, target, S) ==
    IF LoopGoesOn("shortest", S)
    THEN RunShortest(dlg, target,
            search_step(dlg, target, "shortest", S,
                        Identity(Len(NextStates(dlg, target, "shortest", S)))))
    ELSE IF S.pc = "loop" THEN search_finish("shortest", S, 1)
    ELSE S

find_valid_path_to_node(dlg, target) == RunShortest(dlg, target, search_start(dlg, target))

-----------------------------------------------------------------------------
(* compute-path: the fallback search and the response *)

\* the ids of can_reach_target in rounds: the target and every node with a
\* Choice edge (conditions ignored) into a node already in the set
RECURSIVE CanReach(_, _)
CanReach(dlg, found) ==
    LET more == {id \in DOMAIN dlg.nodes :
                    \E n \in 1..Len(dlg.nodes[id].choices) :
                        dlg.nodes[id].choices[n].target \in found \cap DOMAIN dlg.nodes}
    IN IF more \subseteq found THEN found ELSE CanReach(dlg, found \cup more)

\* entry_candidates: the trigger nodes that can reach the target.  The list
\* is filled by iterating over a set of strings, so any of them can be first
entry_candidates(dlg, target) ==
    IF ~HasNode(dlg, target) THEN {}
    ELSE {id \in CanReach(dlg, {target}) : dlg.nodes[id].triggers # <<>>}

\* the choices of one dequeued node, in order: [visited, queue, raised]
RECURSIVE TreePush(_, _, _, _, _)
TreePush(dlg, e, choices, visited, queue) ==
    IF choices = <<>> THEN [visited |-> visited, queue |-> queue, raised |-> FALSE]
    ELSE LET c == Head(choices)
         IN IF c.target = "END" \/ ~HasNode(dlg, c.target) \/ c.target \in visited
            THEN TreePush(dlg, e, Tail(choices), visited, queue)
            ELSE LET lenient == IF c.condition # NoCond /\ ~evaluate_condition(e.state, c.condition)
                                THEN grant_condition(e.state, c.condition)
                                ELSE e.state
                     r == RunCommands(lenient, dlg.nodes[c.target].commands)
                 IN IF r.raised THEN [visited |-> visited, queue |-> queue, raised |-> TRUE]
                    ELSE TreePush(dlg, e, Tail(choices), visited \cup {c.target},
                                  Append(queue, Entry(c.target, Append(e.path, c.target), r.st, {})))

\* the BFS from the entry to the target: [raised, res]
RECURSIVE TreeSearch(_, _, _, _)
TreeSearch(dlg, target, queue, visited) ==
    IF queue = <<>> THEN [raised |-> FALSE, res |-> NoResult]
    ELSE LET e == Head(queue)
         IN IF e.node = target THEN [raised |-> FALSE, res |-> Result(e.path, e.state)]
            ELSE LET p == TreePush(dlg, e, dlg.nodes[e.node].choices, visited, Tail(queue))
                 IN IF p.raised THEN [raised |-> TRUE, res |-> NoResult]
                    ELSE TreeSearch(dlg, target, p.queue, p.visited)

\* find_tree_entry_and_path with `entry` the first entry candidate
find_tree_entry_and_path(dlg, target, entry) ==
    IF entry \notin entry_candidates(dlg, target) THEN [raised |-> FALSE, res |-> NoResult]
    ELSE LET granted == grant_condition(EmptyState, dlg.nodes[entry].triggers[1].condition)
             r == RunCommands(granted, dlg.nodes[entry].commands)
         IN IF r.raised THEN [raised |-> TRUE, res |-> NoResult]
            ELSE IF entry = target THEN [raised |-> FALSE, res |-> Result(<<entry>>, r.st)]
            ELSE TreeSearch(dlg, target, <<Entry(entry, <<entry>>, r.st, {})>>, {entry})

\* the entries find_tree_entry_and_path may pick ("" when there is none)
EntryPicks(dlg, target) ==
    IF entry_candidates(dlg, target) = {} THEN {""} ELSE entry_candidates(dlg, target)

\* The JSON answer of compute-path: status 200 with path and state (path
\* null when found is FALSE), fallback telling the "tree entry" answer;
\* status 500 when an exception was caught
Computed(status, res, fallback) ==
    [status |-> status, found |-> res.found, path |-> res.path, state |-> res.state,
     fallback |-> fallback]

NotComputed == Computed(0, NoResult, FALSE)

\* compute_path after the search of the selected mode has ended in S
compute_path_response(dlg, target, S, entry) ==
    IF S.pc = "raised" THEN Computed(500, NoResult, FALSE)
    ELSE IF S.res.found THEN Computed(200, S.res, FALSE)
    ELSE LET t == find_tree_entry_and_path(dlg, target, entry)
         IN IF t.raised THEN Computed(500, NoResult, FALSE)
            ELSE IF t.res.found THEN Computed(200, t.res, TRUE)
            ELSE Computed(200, NoResult, FALSE)

-----------------------------------------------------------------------------
(* replay-path *)

\* the JSON response: status 200 with the state, 400 or 500 with an error
Response(status, st) == [status |-> status, state |-> st]
NotReplayed == Response(0, EmptyState)

\* for choice in node.choices: if choice.target == next_node_id: ...; break
TakenChoice(node, next_node_id) ==
    LET hits == {n \in 1..Len(node.choices) : node.choices[n].target = next_node_id}
    IN IF hits = {} THEN <<>>
       ELSE <<node.choices[CHOOSE n \in hits : \A m \in hits : n <= m]>>

\* The walk of the path from its i-th id on, up to the first command that raises
RECURSIVE ReplayFrom(_, _, _, _)
ReplayFrom(dlg, path, i, st) ==
    IF i > Len(path) THEN [st |-> st, raised |-> FALSE]
    ELSE IF ~HasNode(dlg, path[i]) THEN ReplayFrom(dlg, path, i + 1, st)
    ELSE LET node == dlg.nodes[path[i]]
             r == RunCommands(st, node.commands)
             taken == IF i < Len(path) THEN TakenChoice(node, path[i + 1]) ELSE <<>>
             after == IF taken # <<>> /\ taken[1].condition # NoCond
                         /\ ~evaluate_condition(r.st, taken[1].condition)
                      THEN grant_condition(r.st, taken[1].condition)
                      ELSE r.st
         IN IF r.raised THEN r ELSE ReplayFrom(dlg, path, i + 1, after)

\* The handler on an already parsed dialogue; an exception becomes the 500 response
replay_path(dlg, path) ==
    IF path = <<>> THEN Response(400, EmptyState)
    ELSE LET i0 == RunCommands(EmptyState, dlg.initial_state)
             r == IF i0.raised THEN i0 ELSE ReplayFrom(dlg, path, 1, i0.st)
         IN IF r.raised THEN Response(500, EmptyState) ELSE Response(200, r.st)

-----------------------------------------------------------------------------
(* The parser specification: a text, parse_lines on it, then validate() *)

NodeLabels == {"a", "b"}

GiveKey == Cmd("give_item", "k", NoneV)

LineAlphabet ==
    {Line("bracket", id, NoCond, NoCmd) : id \in NodeLabels \cup {"state"}}
        \cup {Line("cmd", "", NoCond, GiveKey),
              Line("choice", "b", NoCond, NoCmd),
              Line("choice", "END", NoCond, NoCmd),
              Line("trigger", "npc", NoCond, NoCmd),
              Line("trigger", "", NoCond, NoCmd),
              Line("end", "", NoCond, NoCmd),
              Line("say", "npc", NoCond, NoCmd)}

Texts == UNION {[1..n -> LineAlphabet] : n \in 0..MaxLines}

ParseInit ==
    /\ text \in Texts
    /\ dialogue = Dialogue
    /\ ppc = "init"
    /\ valid = FALSE
    /\ pos = 0
    /\ calls = <<>>
    /\ validator = DialogueValidator
    /\ vpc = "init"
    /\ state = EmptyState
    /\ condition = NoCond
    /\ cpc = "idle"
    /\ result = FALSE
    /\ cmdline = NoCmd
    /\ skip = FALSE
    /\ target_node = ""
    /\ mode = "idle"
    /\ search = NotStarted
    /\ computed = NotComputed
    /\ rpath = <<>>
    /\ replayed = NotReplayed
    /\ known_items = {}
    /\ known_companions = {}
    /\ choice_line = <<>>
    /\ node_choices = <<>>

ParseLines ==
    /\ ppc = "init"
    /\ dialogue' = parse_lines(text)
    /\ ppc' = "parsed"
    /\ known_items' = tracked(text, known_items, known_companions).items
    /\ known_companions' = tracked(text, known_items, known_companions).companions
    /\ UNCHANGED <<text, valid>>
    /\ UNCHANGED <<condVars, searchVars, replayVars, loopVars, validatorVars, choiceVars>>

Validate ==
    /\ ppc \in {"parsed", "validated"}
    /\ LET r == validate(dialogue)
       IN /\ dialogue' = r.dlg
          /\ valid' = r.valid
    /\ ppc' = IF ppc = "parsed" THEN "validated" ELSE "revalidated"
    /\ UNCHANGED text
    /\ UNCHANGED notParse

ParseNext == ParseLines \/ Validate

SpecParse == ParseInit /\ [][ParseNext]_vars

-----------------------------------------------------------------------------
(* The entry specification: texts with a [start] label, an [entry:e] group,
   the labels END and "" and the route and exit lines, under the same calls *)

EntryAlphabet ==
    {Line("bracket", id, NoCond, NoCmd) : id \in {"start", "a", "END", "", "entry:e"}}
        \cup {Line("choice", "a", NoCond, NoCmd),
              Line("choice", "END", NoCond, NoCmd),
              Line("route", "a", One(Atom("flag", "y", 0)), NoCmd),
              Line("route", "zz", One(Atom("has_item", "k", 0)), NoCmd),
              Line("exit", "zz", NoCond, NoCmd),
              Line("trigger", "npc", NoCond, NoCmd)}

EntryTexts == UNION {[1..n -> EntryAlphabet] : n \in 0..MaxLines}

EntryInit ==
    /\ text \in EntryTexts
    /\ dialogue = Dialogue
    /\ ppc = "init"
    /\ valid = FALSE
    /\ pos = 0
    /\ calls = <<>>
    /\ validator = DialogueValidator
    /\ vpc = "init"
    /\ state = EmptyState
    /\ condition = NoCond
    /\ cpc = "idle"
    /\ result = FALSE
    /\ cmdline = NoCmd
    /\ skip = FALSE
    /\ target_node = ""
    /\ mode = "idle"
    /\ search = NotStarted
    /\ computed = NotComputed
    /\ rpath = <<>>
    /\ replayed = NotReplayed
    /\ known_items = {}
    /\ known_companions = {}
    /\ choice_line = <<>>
    /\ node_choices = <<>>

SpecEntry == EntryInit /\ [][ParseNext]_vars

-----------------------------------------------------------------------------
(* The loop specification: parse_lines one iteration of its top-level loop
   at a time, on texts with section headers and open quotes *)

LoopAlphabet ==
    {Line("bracket", id, NoCond, NoCmd) : id \in {"a", "characters", "state", "entry:e"}}
        \cup {Line("blank", "", NoCond, NoCmd),
              Line("choice", "END", NoCond, NoCmd),
              Line("sayopen", "npc", NoCond, NoCmd),
              Line("choiceopen", "a", NoCond, NoCmd),
              Line("close", "", One(Atom("flag", "y", 0)), NoCmd)}

LoopTexts == UNION {[1..n -> LoopAlphabet] : n \in 0..MaxLines}

LoopInit ==
    /\ text = <<>>
    /\ dialogue = Dialogue
    /\ ppc = "init"
    /\ valid = FALSE
    /\ pos = 0
    /\ calls = <<>>
    /\ validator = DialogueValidator
    /\ vpc = "init"
    /\ state = EmptyState
    /\ condition = NoCond
    /\ cpc = "idle"
    /\ result = FALSE
    /\ cmdline = NoCmd
    /\ skip = FALSE
    /\ target_node = ""
    /\ mode = "idle"
    /\ search = NotStarted
    /\ computed = NotComputed
    /\ rpath = <<>>
    /\ replayed = NotReplayed
    /\ known_items = {}
    /\ known_companions = {}
    /\ choice_line = <<>>
    /\ node_choices = <<>>

\* One running loop: the index it was given; for the body loop the primary
\* node and the stacked labels, for the entry loop the group, for the
\* multi-line reader the line that opened the quote
Frame(kind, given, at, node, ids, group) ==
    [kind |-> kind, given |-> given, at |-> at, node |-> node, ids |-> ids, group |-> group]

Loop(kind, given) == Frame(kind, given, 0, DialogueNode("", 0), <<>>, EntryGroup("", 0))

Top == calls[Len(calls)]
Pop == SubSeq(calls, 1, Len(calls) - 1)
Running(kinds) == ppc = "parsing" /\ calls # <<>> /\ Top.kind \in kinds

\* parse_lines(lines) is called: self.dialogue = Dialogue(), i = 0
ParseBegin ==
    /\ ppc = "init"
    /\ \E lines \in LoopTexts : text' = lines
    /\ dialogue' = Dialogue
    /\ ppc' = "parsing"
    /\ pos' = 1
    /\ calls' = <<Loop("top", 1)>>
    /\ UNCHANGED valid
    /\ UNCHANGED notLoop

\* one pass of the top-level loop: a section header calls the loop of the
\* section with the index of the line after it, any other line is skipped
TopStep ==
    /\ Running({"top"})
    /\ pos <= Len(text)
    /\ LET line == text[pos]
           j == StackEnd(text, pos + 1)
           node_ids == [n \in 1..(j - pos) |-> text[pos + n - 1].id]
           primary == DialogueNode(node_ids[1], j - 1)
       IN CASE line.k = "bracket" /\ line.id \in {"characters", "state"} ->
                  /\ calls' = Append(calls, Loop(line.id, pos + 1))
                  /\ pos' = pos + 1
                  /\ UNCHANGED dialogue
            [] line.k = "bracket" /\ IsEntryHeader(line.id) ->
                  /\ calls' = Append(calls, Frame("entry", pos + 1, 0, DialogueNode("", 0), <<>>,
                                                 EntryGroup(EntryName(line.id), pos)))
                  /\ pos' = pos + 1
                  /\ UNCHANGED dialogue
            [] line.k = "bracket" /\ line.id \notin {"characters", "state"} /\ ~IsEntryHeader(line.id) ->
                  /\ calls' = Append(calls, Frame("node", j, 0, primary, node_ids, EntryGroup("", 0)))
                  /\ pos' = j
                  /\ dialogue' = PutNode(dialogue, node_ids[1], primary)
            [] OTHER ->
                  /\ pos' = pos + 1
                  /\ UNCHANGED <<dialogue, calls>>
    /\ UNCHANGED <<text, ppc, valid>>
    /\ UNCHANGED notLoop

\* one pass of the loop of a section over a line that is not a header
SectionStep ==
    /\ Running({"characters", "state", "entry", "node"})
    /\ pos <= Len(text) /\ ~IsHeader(text[pos])
    /\ ~(Top.kind = "node" /\ text[pos].k \in {"sayopen", "choiceopen"})
    /\ LET line == text[pos]
           e == entry_line(dialogue, Top.group, line, pos)
           b == body_line(text, pos, dialogue, Top.node)
       IN CASE Top.kind = "characters" ->
                  /\ dialogue' = characters_line(dialogue, line)
                  /\ UNCHANGED calls
            [] Top.kind = "state" ->
                  /\ dialogue' = state_line(dialogue, line, pos)
                  /\ UNCHANGED calls
            [] Top.kind = "entry" ->
                  /\ dialogue' = e.dlg
                  /\ calls' = [calls EXCEPT ![Len(calls)].group = e.group]
            [] Top.kind = "node" ->
                  /\ dialogue' = b.dlg
                  /\ calls' = [calls EXCEPT ![Len(calls)].node = b.node]
    /\ pos' = pos + 1
    /\ UNCHANGED <<text, ppc, valid>>
    /\ UNCHANGED notLoop

\* the loop of a section stops at a header or at the end of the input and
\* hands back the index it stands at
SectionReturn ==
    /\ Running({"characters", "state", "entry", "node"})
    /\ IF pos <= Len(text) THEN IsHeader(text[pos]) ELSE TRUE
    /\ dialogue' = CASE Top.kind = "entry" -> put_entry_group(dialogue, Top.group)
                      [] Top.kind = "node" -> put_node(dialogue, Top.node, Top.ids)
                      [] OTHER -> dialogue
    /\ calls' = Pop
    /\ UNCHANGED <<text, ppc, valid, pos>>
    /\ UNCHANGED notLoop

\* a speaker line or a choice of the body opens a quote it does not close:
\* _read_multiline_quoted_text is called with the index of the next line
OpenQuote ==
    /\ Running({"node"})
    /\ pos <= Len(text) /\ text[pos].k \in {"sayopen", "choiceopen"}
    /\ calls' = Append(calls, Frame("multiline", pos + 1, pos, DialogueNode("", 0), <<>>,
                                   EntryGroup("", 0)))
    /\ pos' = pos + 1
    /\ UNCHANGED <<text, dialogue, ppc, valid>>
    /\ UNCHANGED notLoop

\* Mutant of QuoteStep: the reader looks at the same line again
QuoteStepStay ==
    /\ Running({"multiline"})
    /\ pos <= Len(text)
    /\ IF text[pos].k = "blank" THEN TRUE ELSE ~ClosesQuote(text[pos])
    /\ UNCHANGED vars

\* one pass of the multi-line reader over a line that closes nothing
QuoteStep ==
    /\ Running({"multiline"})
    /\ pos <= Len(text)
    /\ IF text[pos].k = "blank" THEN TRUE ELSE ~ClosesQuote(text[pos])
    /\ pos' = pos + 1
    /\ UNCHANGED <<text, dialogue, ppc, valid, calls>>
    /\ UNCHANGED notLoop

\* the multi-line reader returns at the closing line or at the end of the
\* input; the body loop appends the line or the choice and goes on
QuoteReturn ==
    /\ Running({"multiline"})
    /\ IF pos <= Len(text) THEN text[pos].k # "blank" /\ ClosesQuote(text[pos]) ELSE TRUE
    /\ LET opener == text[Top.at]
           cond == IF pos <= Len(text) /\ text[pos].k \in {"say", "close"}
                   THEN text[pos].cond ELSE NoCond
           caller == Len(calls) - 1
       IN calls' = [Pop EXCEPT ![caller].node =
                       IF opener.k = "sayopen"
                       THEN [@ EXCEPT !.lines = Append(@, DialogueLine(opener.id, cond, Top.at))]
                       ELSE [@ EXCEPT !.choices = Append(@, Choice(opener.id, cond, Top.at))]]
    /\ pos' = IF pos > Len(text) THEN pos ELSE pos + 1
    /\ UNCHANGED <<text, dialogue, ppc, valid>>
    /\ UNCHANGED notLoop

\* the top-level loop is over: the default of start_node, return self.dialogue
ParseReturn ==
    /\ Running({"top"})
    /\ pos > Len(text)
    /\ dialogue' = set_start_node(dialogue)
    /\ ppc' = "parsed"
    /\ calls' = <<>>
    /\ UNCHANGED <<text, valid, pos>>
    /\ UNCHANGED notLoop

LoopNext ==
    \/ ParseBegin
    \/ TopStep
    \/ SectionStep
    \/ SectionReturn
    \/ OpenQuote
    \/ QuoteStep
    \/ QuoteReturn
    \/ ParseReturn

\* parse_lines is sequential code: it keeps taking steps until it returns
SpecLoop == LoopInit /\ [][LoopNext]_vars /\ WF_vars(LoopNext)


-----------------------------------------------------------------------------
(* The evaluator specification: one state, one condition, the calls on it *)

IntLits == {0, MaxInt}

VarAtoms(x) ==
    {Atom("flag", x, 0), Atom("not", x, 0)}
        \cup {Atom(op, x, n) : op \in CmpOps \cup {"eq", "ne"}, n \in IntLits}
        \cup {Atom("eqbool", x, b) : b \in {0, 1}}
        \cup {Atom("eqstr", x, s) : s \in 1..NumStr}

Atoms == VarAtoms("x") \cup {Atom("has_item", "k", 0), Atom("companion", "p", 0)}

\* second operands of a && b, a || b
SecondAtoms == {Atom("flag", "y", 0), Atom("not", "x", 0), Atom("lt", "y", MaxInt),
                Atom("has_item", "k", 0)}

Conditions ==
    {One(a) : a \in Atoms}
        \cup {And(a, b) : a \in Atoms, b \in SecondAtoms}
        \cup {Or(a, b) : a \in Atoms, b \in SecondAtoms}

Values ==
    {NoneV, BoolV(TRUE), BoolV(FALSE)} \cup {IntV(n) : n \in 0..MaxInt + 1}
        \cup {StrV(s) : s \in 1..NumStr}

States ==
    {WebGameState(vs, inv, comp) :
        vs \in [VarNames -> Values], inv \in SUBSET ItemNames, comp \in SUBSET CompNames}

CondInit ==
    /\ state \in States
    /\ condition \in Conditions
    /\ cpc = "start"
    /\ result = FALSE
    /\ cmdline = NoCmd
    /\ skip = FALSE
    /\ text = <<>>
    /\ dialogue = Dialogue
    /\ ppc = "idle"
    /\ valid = FALSE
    /\ pos = 0
    /\ calls = <<>>
    /\ validator = DialogueValidator
    /\ vpc = "init"
    /\ target_node = ""
    /\ mode = "idle"
    /\ search = NotStarted
    /\ computed = NotComputed
    /\ rpath = <<>>
    /\ replayed = NotReplayed
    /\ known_items = {}
    /\ known_companions = {}
    /\ choice_line = <<>>
    /\ node_choices = <<>>

GrantCondition ==
    /\ cpc = "start"
    /\ state' = grant_condition(state, condition)
    /\ cpc' = "granted"
    /\ UNCHANGED <<condition, result, cmdline, skip>>
    /\ UNCHANGED notCond

EvaluateCondition ==
    /\ cpc \in {"start", "granted"}
    /\ result' = evaluate_condition(state, condition)
    /\ cpc' = IF cpc = "start" THEN "evaluated" ELSE "granted_evaluated"
    /\ UNCHANGED <<state, condition, cmdline, skip>>
    /\ UNCHANGED notCond

CliEvaluateCondition ==
    /\ cpc = "start"
    /\ result' = cli_evaluate_condition(state, condition)
    /\ cpc' = "cli_evaluated"
    /\ UNCHANGED <<state, condition, cmdline, skip>>
    /\ UNCHANGED notCond

CondNext == GrantCondition \/ EvaluateCondition \/ CliEvaluateCondition

SpecCond == CondInit /\ [][CondNext]_vars

-----------------------------------------------------------------------------
(* The command specification: a state, a command, execute_command on it *)

Commands ==
    {Cmd("set", "x", v) : v \in {BoolV(TRUE), IntV(1), StrV(1)}}
        \cup {Cmd(c, "x", v) : c \in {"add", "sub"}, v \in {IntV(1), StrV(1)}}
        \cup {Cmd(c, "k", NoneV) : c \in {"give_item", "remove_item"}}
        \cup {Cmd(c, "p", NoneV) : c \in {"add_companion", "remove_companion"}}
        \cup {Cmd("unknown", "x", NoneV)}

CommandInit ==
    /\ state \in States
    /\ cmdline \in Commands
    /\ skip \in BOOLEAN
    /\ cpc = "start"
    /\ condition = NoCond
    /\ result = FALSE
    /\ text = <<>>
    /\ dialogue = Dialogue
    /\ ppc = "idle"
    /\ valid = FALSE
    /\ pos = 0
    /\ calls = <<>>
    /\ validator = DialogueValidator
    /\ vpc = "init"
    /\ target_node = ""
    /\ mode = "idle"
    /\ search = NotStarted
    /\ computed = NotComputed
    /\ rpath = <<>>
    /\ replayed = NotReplayed
    /\ known_items = {}
    /\ known_companions = {}
    /\ choice_line = <<>>
    /\ node_choices = <<>>

\* state.execute_command(command, skip_if_exists): it returns or it raises
ExecuteCommand ==
    /\ cpc = "start"
    /\ cmdline # NoCmd
    /\ state' = IF CommandRaises(state, cmdline) THEN state
                ELSE execute_command(state, cmdline, skip)
    /\ cpc' = IF CommandRaises(state, cmdline) THEN "raised" ELSE "executed"
    /\ UNCHANGED <<condition, result, cmdline, skip>>
    /\ UNCHANGED notCond

CommandNext == ExecuteCommand

SpecCommand == CommandInit /\ [][CommandNext]_vars

-----------------------------------------------------------------------------
(* The compute-path specification: a dialogue text, a target and a mode;   *)
(* the request parses the text and runs the search of that mode            *)

Blank == Line("blank", "", NoCond, NoCmd)
Header(id) == Line("bracket", id, NoCond, NoCmd)
Command(c) == Line("cmd", "", NoCond, c)
Goto(id, cond) == Line("choice", id, cond, NoCmd)
Talk(cond) == Line("trigger", "npc", cond, NoCmd)
End == Line("end", "", NoCond, NoCmd)

FlagY == One(Atom("flag", "y", 0))
XIsOne == One(Atom("eq", "x", 1))
HasKey == One(Atom("has_item", "k", 0))
SetXOne == Cmd("set", "x", IntV(1))
SetXStr == Cmd("set", "x", StrV(1))
AddXOne == Cmd("add", "x", IntV(1))

NumOptions == 9

\* The dialogue texts: one graph of six nodes, start .. g, with lines that
\* each come in two variants.  Node t is a trigger node that no choice
\* leads to; a sets x; g is guarded; a may lead back to start; the [state]
\* section may add 1 to a variable that holds a string.
SearchText(o) ==
    << Header("state"),
       IF o[1] THEN Command(GiveKey) ELSE Blank,
       IF o[9] THEN Command(SetXStr) ELSE Blank,
       IF o[9] THEN Command(AddXOne) ELSE Blank,
       Header("start"),
       IF o[2] THEN End ELSE Blank,
       Goto("b", IF o[3] THEN HasKey ELSE NoCond),
       Header("t"),
       Talk(IF o[4] THEN FlagY ELSE NoCond),
       Goto("a", NoCond),
       Goto("g", IF o[5] THEN FlagY ELSE XIsOne),
       Header("a"),
       IF o[6] THEN Command(SetXOne) ELSE Blank,
       IF o[7] THEN End ELSE Blank,
       IF o[8] THEN Goto("start", NoCond) ELSE Blank,
       Header("b"),
       Goto("b2", NoCond),
       Header("b2"),
       Goto("a", NoCond),
       Header("g"),
       Goto("END", NoCond) >>

SearchTexts == {SearchText(o) : o \in [1..NumOptions -> BOOLEAN]}

Targets == {"start", "t", "a", "b", "b2", "g", "END", "zz"}
Modes == {"shortest", "random", "explore"}

SearchInit ==
    /\ text \in SearchTexts
    /\ dialogue = Dialogue
    /\ ppc = "init"
    /\ valid = FALSE
    /\ pos = 0
    /\ calls = <<>>
    /\ validator = DialogueValidator
    /\ vpc = "init"
    /\ target_node \in Targets
    /\ mode \in Modes
    /\ search = NotStarted
    /\ computed = NotComputed
    /\ state = EmptyState
    /\ condition = NoCond
    /\ cpc = "idle"
    /\ result = FALSE
    /\ cmdline = NoCmd
    /\ skip = FALSE
    /\ rpath = <<>>
    /\ replayed = NotReplayed
    /\ known_items = {}
    /\ known_companions = {}
    /\ choice_line = <<>>
    /\ node_choices = <<>>

\* compute_path up to the while loop of the search it selects
ComputePath ==
    /\ ppc = "init"
    /\ search.pc = "init"
    /\ dialogue' = parse_lines(text)
    /\ ppc' = "parsed"
    /\ search' = search_start(dialogue', target_node)
    /\ UNCHANGED <<text, valid, target_node, mode, computed>>
    /\ UNCHANGED notSearch

\* one iteration of the while loop
SearchStep ==
    /\ LoopGoesOn(mode, search)
    /\ \E order \in Orders(mode, NextStates(dialogue, target_node, mode, search)) :
          search' = search_step(dialogue, target_node, mode, search, order)
    /\ UNCHANGED <<parseVars, target_node, mode, computed>>
    /\ UNCHANGED notSearch

\* the loop has ended without a return: the code after the loop
SearchFinish ==
    /\ search.pc = "loop"
    /\ ~LoopGoesOn(mode, search)
    /\ \E pick \in Picks(mode, search) : search' = search_finish(mode, search, pick)
    /\ UNCHANGED <<parseVars, target_node, mode, computed>>
    /\ UNCHANGED notSearch

\* the search has returned or raised: the fallback when there is no path,
\* then the answer
Respond ==
    /\ search.pc \in {"done", "raised"}
    /\ computed.status = 0
    /\ \E entry \in EntryPicks(dialogue, target_node) :
          computed' = compute_path_response(dialogue, target_node, search, entry)
    /\ UNCHANGED <<parseVars, target_node, mode, search>>
    /\ UNCHANGED notSearch

SearchNext == ComputePath \/ SearchStep \/ SearchFinish \/ Respond

SpecSearch == SearchInit /\ [][SearchNext]_vars

-----------------------------------------------------------------------------
(* The replay-path specification: a dialogue text and a path of ids *)

\* a path has at most MaxPath ids
MaxPath == 3

XAtLeastOne == One(Atom("ge", "x", 1))

NumReplayOptions == 4

ReplayText(o) ==
    << Header("state"),
       IF o[1] THEN Command(SetXStr) ELSE Blank,
       Header("start"),
       IF o[2] THEN Command(AddXOne) ELSE Command(GiveKey),
       Goto("a", IF o[3] THEN XAtLeastOne ELSE HasKey),
       Goto("a", NoCond),
       Header("a"),
       IF o[4] THEN Command(SetXStr) ELSE Blank,
       Goto("start", FlagY),
       Goto("END", NoCond) >>

ReplayTexts == {ReplayText(o) : o \in [1..NumReplayOptions -> BOOLEAN]}

PathIds == {"start", "a", "END", "zz"}
Paths == UNION {[1..n -> PathIds] : n \in 0..MaxPath}

ReplayInit ==
    /\ text \in ReplayTexts
    /\ dialogue = Dialogue
    /\ ppc = "init"
    /\ valid = FALSE
    /\ pos = 0
    /\ calls = <<>>
    /\ validator = DialogueValidator
    /\ vpc = "init"
    /\ rpath \in Paths
    /\ replayed = NotReplayed
    /\ known_items = {}
    /\ known_companions = {}
    /\ choice_line = <<>>
    /\ node_choices = <<>>
    /\ target_node = ""
    /\ mode = "idle"
    /\ search = NotStarted
    /\ computed = NotComputed
    /\ state = EmptyState
    /\ condition = NoCond
    /\ cpc = "idle"
    /\ result = FALSE
    /\ cmdline = NoCmd
    /\ skip = FALSE

\* the replay-path request: an empty path is refused before anything is
\* parsed; otherwise parse the content and walk the path
ReplayPath ==
    /\ ppc = "init"
    /\ replayed.status = 0
    /\ dialogue' = IF rpath = <<>> THEN dialogue ELSE parse_lines(text)
    /\ ppc' = IF rpath = <<>> THEN ppc ELSE "parsed"
    /\ replayed' = replay_path(parse_lines(text), rpath)
    /\ UNCHANGED <<text, valid, rpath>>
    /\ UNCHANGED notReplay

ReplayNext == ReplayPath

SpecReplay == ReplayInit /\ [][ReplayNext]_vars

-----------------------------------------------------------------------------
(* The round-trip specification: compute-path in shortest mode, then
   replay-path on the path it returned, on the same content *)

NumRoundTripOptions == 5

\* start has two Choices to a, the first guarded; g is reached by a trigger
\* jump only
RoundTripText(o) ==
    << Header("start"),
       IF o[1] THEN Command(GiveKey) ELSE Blank,
       Goto("a", HasKey),
       Goto("a", IF o[2] THEN FlagY ELSE NoCond),
       Header("a"),
       IF o[3] THEN Command(SetXOne) ELSE Blank,
       IF o[4] THEN End ELSE Blank,
       IF o[5] THEN Goto("start", NoCond) ELSE Blank,
       Goto("END", NoCond),
       Header("g"),
       Talk(FlagY),
       Goto("END", NoCond) >>

RoundTripTexts == {RoundTripText(o) : o \in [1..NumRoundTripOptions -> BOOLEAN]}

RoundTripInit ==
    /\ text \in RoundTripTexts
    /\ dialogue = Dialogue
    /\ ppc = "init"
    /\ valid = FALSE
    /\ pos = 0
    /\ calls = <<>>
    /\ validator = DialogueValidator
    /\ vpc = "init"
    /\ target_node \in {"start", "a", "g", "END"}
    /\ mode = "shortest"
    /\ search = NotStarted
    /\ computed = NotComputed
    /\ state = EmptyState
    /\ condition = NoCond
    /\ cpc = "idle"
    /\ result = FALSE
    /\ cmdline = NoCmd
    /\ skip = FALSE
    /\ rpath = <<>>
    /\ replayed = NotReplayed
    /\ known_items = {}
    /\ known_companions = {}
    /\ choice_line = <<>>
    /\ node_choices = <<>>

\* the replay-path request on the path the search has returned
ReplayFound ==
    /\ search.pc = "done"
    /\ search.res.found
    /\ replayed.status = 0
    /\ rpath' = search.res.path
    /\ replayed' = replay_path(parse_lines(text), search.res.path)
    /\ UNCHANGED <<condVars, parseVars, searchVars, loopVars, validatorVars, knownVars, choiceVars>>

RoundTripNext == ComputePath \/ SearchStep \/ SearchFinish \/ ReplayFound

SpecRoundTrip == RoundTripInit /\ [][RoundTripNext]_vars

-----------------------------------------------------------------------------
(* The cycle specification: compute-path on a node that leads back to
   itself and counts with *add or *sub, towards a node no choice leads to
   and towards END *)

\* the searches are followed while the counter is below MaxCount
MaxCount == 22

SubXOne == Cmd("sub", "x", IntV(1))

NumCycleOptions == 4

\* Node t is a trigger node that no choice leads to; its commands may add 1
\* to a variable that holds a string
CycleText(o) ==
    << Header("start"),
       IF o[1] THEN (IF o[2] THEN Command(AddXOne) ELSE Command(SubXOne)) ELSE Blank,
       Goto("start", NoCond),
       IF o[3] THEN Goto("END", NoCond) ELSE Blank,
       Header("g"),
       Goto("END", NoCond),
       Header("t"),
       Talk(FlagY),
       IF o[4] THEN Command(SetXStr) ELSE Blank,
       Command(AddXOne),
       Goto("g", HasKey) >>

CycleTexts == {CycleText(o) : o \in [1..NumCycleOptions -> BOOLEAN]}

CycleInit ==
    /\ text \in CycleTexts
    /\ dialogue = Dialogue
    /\ ppc = "init"
    /\ valid = FALSE
    /\ pos = 0
    /\ calls = <<>>
    /\ validator = DialogueValidator
    /\ vpc = "init"
    /\ target_node \in {"start", "g", "t", "END", "zz"}
    /\ mode \in Modes
    /\ search = NotStarted
    /\ computed = NotComputed
    /\ state = EmptyState
    /\ condition = NoCond
    /\ cpc = "idle"
    /\ result = FALSE
    /\ cmdline = NoCmd
    /\ skip = FALSE
    /\ rpath = <<>>
    /\ replayed = NotReplayed
    /\ known_items = {}
    /\ known_companions = {}
    /\ choice_line = <<>>
    /\ node_choices = <<>>

\* the distance of the counter x from 0
Counted(st) ==
    LET val == st.variables["x"]
    IN IF val.t # "int" THEN 0 ELSE IF val.v < 0 THEN 0 - val.v ELSE val.v

\* one iteration of the while loop, followed up to MaxCount
CycleStep ==
    /\ LoopGoesOn(mode, search)
    /\ Counted(Taken(mode, search).state) < MaxCount
    /\ SearchStep

CycleNext == ComputePath \/ CycleStep \/ SearchFinish \/ Respond

\* a search that has started is sequential code: it goes on to the next
\* iteration, to the code after the loop and to the answer
SpecCycle ==
    /\ CycleInit
    /\ [][CycleNext]_vars
    /\ WF_vars(CycleStep)
    /\ WF_vars(SearchFinish)
    /\ WF_vars(Respond)

-----------------------------------------------------------------------------
(* The statistics specification: one DialogueParser that parses a text and
   then parses again, any text any number of times *)

Say(cond) == Line("say", "npc", cond, NoCmd)
Route(id, cond) == Line("route", id, cond, NoCmd)

HasM == One(Atom("has_item", "m", 0))
WithP == One(Atom("companion", "p", 0))
AddP == Cmd("add_companion", "p", NoneV)

NumStatsOptions == 6

\* The texts: item k in a [state] command and in a choice condition, item m
\* in the condition of a speaker line and of an entry route, companion p in
\* a node command and in a trigger condition
StatsText(o) ==
    << Header("state"),
       IF o[1] THEN Command(GiveKey) ELSE Blank,
       Header("a"),
       Talk(IF o[5] THEN WithP ELSE NoCond),
       Say(IF o[2] THEN HasM ELSE NoCond),
       IF o[3] THEN Command(AddP) ELSE Blank,
       Goto("END", IF o[4] THEN HasKey ELSE NoCond),
       Header("entry:e"),
       Route("a", IF o[6] THEN HasM ELSE FlagY) >>

StatsTexts == {StatsText(o) : o \in [1..NumStatsOptions -> BOOLEAN]}

StatsInit ==
    /\ text \in StatsTexts
    /\ dialogue = Dialogue
    /\ ppc = "init"
    /\ valid = FALSE
    /\ known_items = {}
    /\ known_companions = {}
    /\ choice_line = <<>>
    /\ node_choices = <<>>
    /\ pos = 0
    /\ calls = <<>>
    /\ validator = DialogueValidator
    /\ vpc = "init"
    /\ target_node = ""
    /\ mode = "idle"
    /\ search = NotStarted
    /\ computed = NotComputed
    /\ state = EmptyState
    /\ condition = NoCond
    /\ cpc = "idle"
    /\ result = FALSE
    /\ cmdline = NoCmd
    /\ skip = FALSE
    /\ rpath = <<>>
    /\ replayed = NotReplayed

\* parse_lines is called once more on the same DialogueParser
ParseAgain ==
    /\ ppc = "parsed"
    /\ \E lines \in StatsTexts :
          /\ text' = lines
          /\ dialogue' = parse_lines(lines)
          /\ known_items' = tracked(lines, known_items, known_companions).items
          /\ known_companions' = tracked(lines, known_items, known_companions).companions
    /\ UNCHANGED <<ppc, valid>>
    /\ UNCHANGED <<condVars, searchVars, replayVars, loopVars, validatorVars, choiceVars>>

StatsNext == ParseLines \/ ParseAgain

SpecStats == StatsInit /\ [][StatsNext]_vars

-----------------------------------------------------------------------------
(* The choice-line specification: _parse_choice on one `->` line, the last
   line of its input, character by character.  A string is the sequence of
   its characters; None is the empty option, Some(s) the string s. *)

None == <<>>
Some(s) == <<s>>

TextChoice(target, txt, cond) == [target |-> target, text |-> txt, condition |-> cond]

Positions(s, c) == {i \in 1..Len(s) : s[i] = c}
Least(S) == CHOOSE i \in S : \A j \in S : i <= j
Greatest(S) == CHOOSE i \in S : \A j \in S : i >= j

\* c in s, s.index(c), s.rindex(c), s.count(c)
Has(s, c) == Positions(s, c) # {}
index(s, c) == Least(Positions(s, c))
rindex(s, c) == Greatest(Positions(s, c))
count(s, c) == Cardinality(Positions(s, c))

\* s.strip()
strip(s) ==
    LET inked == {i \in 1..Len(s) : s[i] # " "}
    IN IF inked = {} THEN <<>> ELSE SubSeq(s, Least(inked), Greatest(inked))

\* s[:i] and s[i:] with i counted from 1
Before(s, i) == SubSeq(s, 1, i - 1)
From(s, i) == SubSeq(s, i, Len(s))

startswith(s, c) == s # <<>> /\ s[1] = c
endswith(s, c) == s # <<>> /\ s[Len(s)] = c

\* condition = ...strip(); if it starts with '{' and ends with '}': the inside, stripped
unbrace(cond) ==
    IF startswith(cond, "{") /\ endswith(cond, "}")
    THEN strip(SubSeq(cond, 2, Len(cond) - 1))
    ELSE cond

\* Mutant of colon_before_condition: any ':' makes the line a choice
colon_anywhere(choice_text) == Has(choice_text, ":")

\* has_colon, has_condition and the comparison of the two positions
colon_before_condition(choice_text) ==
    IF Has(choice_text, ":") /\ Has(choice_text, "{")
    THEN index(choice_text, ":") < index(choice_text, "{")
    ELSE Has(choice_text, ":")

\* the single-line branch after the colon: the condition is cut off at the
\* last '{' when that stands after the last '"', or when there is no '"'
single_line_choice(target, rest) ==
    LET cut == Has(rest, "{") /\ (Has(rest, "\"") => rindex(rest, "{") > rindex(rest, "\""))
        cond_start == rindex(rest, "{")
        txt == IF cut THEN strip(Before(rest, cond_start)) ELSE rest
        cond == IF cut THEN Some(unbrace(strip(From(rest, cond_start)))) ELSE None
        unquoted == IF startswith(txt, "\"") /\ endswith(txt, "\"")
                    THEN SubSeq(txt, 2, Len(txt) - 1)
                    ELSE txt
    IN TextChoice(target, unquoted, cond)

\* _parse_choice on the line "->" \o after_arrow: the Choice it appends
parse_choice_text(after_arrow) ==
    LET choice_text == strip(after_arrow)
    IN IF colon_before_condition(choice_text)
       THEN LET colon == index(choice_text, ":")
                target == strip(Before(choice_text, colon))
                rest == strip(From(choice_text, colon + 1))
            IN IF startswith(rest, "\"") /\ count(rest, "\"") = 1
               \* the quote is not closed and no line follows: the text read so far
               THEN TextChoice(target, strip(From(rest, 2)), None)
               ELSE single_line_choice(target, rest)
       ELSE IF Has(choice_text, "{")
            THEN LET cond_start == index(choice_text, "{")
                 IN TextChoice(strip(Before(choice_text, cond_start)), <<>>,
                               Some(unbrace(strip(From(choice_text, cond_start)))))
            ELSE TextChoice(choice_text, <<>>, None)

Chars == {"t", ":", "{", "}", "\"", " "}

MaxChars == 4

\* -> t {t:t}
GuardedGoto == <<" ", "t", " ", "{", "t", ":", "t", "}">>

ChoiceLines == UNION {[1..n -> Chars] : n \in 0..MaxChars} \cup {GuardedGoto}

ChoiceInit ==
    /\ choice_line \in ChoiceLines
    /\ node_choices = <<>>
    /\ text = <<>>
    /\ dialogue = Dialogue
    /\ ppc = "init"
    /\ valid = FALSE
    /\ known_items = {}
    /\ known_companions = {}
    /\ pos = 0
    /\ calls = <<>>
    /\ validator = DialogueValidator
    /\ vpc = "init"
    /\ target_node = ""
    /\ mode = "idle"
    /\ search = NotStarted
    /\ computed = NotComputed
    /\ state = EmptyState
    /\ condition = NoCond
    /\ cpc = "idle"
    /\ result = FALSE
    /\ cmdline = NoCmd
    /\ skip = FALSE
    /\ rpath = <<>>
    /\ replayed = NotReplayed

\* node.choices.append(choice)
ParseChoice ==
    /\ node_choices = <<>>
    /\ node_choices' = Append(node_choices, parse_choice_text(choice_line))
    /\ UNCHANGED choice_line
    /\ UNCHANGED <<condVars, parseVars, searchVars, replayVars, loopVars, validatorVars, knownVars>>

ChoiceNext == ParseChoice

SpecChoice == ChoiceInit /\ [][ChoiceNext]_vars

-----------------------------------------------------------------------------
(* The command-line validator: DialogueValidator of cli/validate_cmd.py, the
   passes that track items.  The validator reads the file by itself, line by
   line, and does not use DialogueParser. *)

\* re.findall(r'has_item:(\w+)', condition)
ItemsOf(cond) == {a.x : a \in {b \in AtomsOf(cond) : b.k = "has_item"}}

\* ':' in stripped and not stripped.startswith('->') and not stripped.startswith('*')
IsSpeakerLine(line) ==
    /\ line.k \notin {"choice", "choiceopen", "cmd"}
    /\ line.k \in {"say", "sayopen", "trigger"} \/ HasColon(line.cond)

\* the local flags of _validate_structure with the validator they work on
Structure(v) ==
    [v |-> v, in_characters_section |-> FALSE, in_state_section |-> FALSE,
     in_node |-> FALSE, in_multiline_string |-> FALSE]

\* _validate_condition_syntax: every has_item:NAME of the condition is checked
validate_condition_syntax(v, cond) == [v EXCEPT !.items_checked = @ \cup ItemsOf(cond)]

\* _validate_choice: a target is needed; an open quote returns before the
\* condition is looked for; "-> id {cond}" has its condition validated
validate_choice(s, line) ==
    IF line.id = "" THEN s
    ELSE IF line.k = "choiceopen" THEN [s EXCEPT !.in_multiline_string = TRUE]
    ELSE IF line.cond = NoCond THEN s
    ELSE [s EXCEPT !.v = validate_condition_syntax(@, line.cond)]

\* _validate_command_syntax: *give_item NAME is recorded
validate_command_syntax(v, line) ==
    IF line.cmd.cmd = "give_item" /\ line.cmd.name # ""
    THEN [v EXCEPT !.items_given = @ \cup {line.cmd.name}]
    ELSE v

\* one pass of the loop of _validate_structure, at line line_num
structure_line(lines, line_num, s) ==
    LET line == lines[line_num]
    IN IF line.k = "blank" THEN s
       ELSE IF s.in_multiline_string
       THEN [s EXCEPT !.in_multiline_string = ~ClosesQuote(line)]
       ELSE IF IsHeader(line) /\ line.id = "characters"
       THEN [s EXCEPT !.in_characters_section = TRUE, !.in_state_section = FALSE,
                      !.in_node = FALSE]
       ELSE IF IsHeader(line) /\ line.id = "state"
       THEN [s EXCEPT !.in_characters_section = FALSE, !.in_state_section = TRUE,
                      !.in_node = FALSE]
       ELSE IF s.in_state_section /\ ~IsHeader(line)
       THEN IF line.k = "cmd" THEN [s EXCEPT !.v = validate_command_syntax(@, line)] ELSE s
       \* a label: the node is entered when a line follows that is not a label
       ELSE IF IsHeader(line)
       THEN [s EXCEPT !.in_state_section = FALSE, !.in_characters_section = FALSE,
                      !.in_node = IF line_num < Len(lines) /\ ~IsHeader(lines[line_num + 1])
                                  THEN TRUE ELSE @]
       ELSE IF ~s.in_node THEN s
       ELSE IF IsSpeakerLine(line)
       THEN [s EXCEPT !.in_multiline_string = (line.k = "sayopen")]
       ELSE IF line.k \in {"choice", "choiceopen"} THEN validate_choice(s, line)
       ELSE IF line.k = "cmd" THEN [s EXCEPT !.v = validate_command_syntax(@, line)]
       ELSE s

RECURSIVE structure_from(_, _, _)
structure_from(lines, line_num, s) ==
    IF line_num > Len(lines) THEN s
    ELSE structure_from(lines, line_num + 1, structure_line(lines, line_num, s))

\* _validate_structure
validate_structure(v) == structure_from(v.lines, 1, Structure(v)).v

\* f'has_item:{item}' in line; no name of the model is a prefix of another
HoldsHasItem(line, item) == item \in ItemsOf(line.cond)

\* the lines of the file that hold has_item:item, in order
LinesWithItem(lines, item) ==
    SelectSeq([n \in 1..Len(lines) |-> n], LAMBDA n : HoldsHasItem(lines[n], item))

\* self.items_checked - self.items_given
undefined_items(v) == v.items_checked \ v.items_given

\* the orders in which `for item in undefined_items` can run over the set
IterationOrders(S) == {q \in [1..Cardinality(S) -> S] : \A x \in S : \E n \in DOMAIN q : q[n] = x}

\* _validate_conditions, the loop over undefined_items run in the given order:
\* one warning for every line of the file that holds has_item:item
validate_conditions(v, order) ==
    [v EXCEPT !.warnings = @ \o
        Flatten([m \in 1..Len(order) |->
                    [n \in 1..Len(LinesWithItem(v.lines, order[m])) |->
                        Diag("item_never_given", LinesWithItem(v.lines, order[m])[n], order[m])]])]

GiveItem(name) == Cmd("give_item", name, NoneV)

HasItem(name) == One(Atom("has_item", name, 0))

ValidatorItems == {"k", "j"}

ValidatorAlphabet ==
    {Line("bracket", id, NoCond, NoCmd) : id \in {"a", "state", "characters"}}
        \cup {Line("choice", "a", HasItem("k"), NoCmd),
              Line("choice", "a", HasItem("j"), NoCmd),
              Line("choiceopen", "a", NoCond, NoCmd),
              Line("close", "", HasItem("k"), NoCmd),
              Line("say", "npc", HasItem("k"), NoCmd),
              Line("cmd", "", NoCond, GiveItem("k"))}

ValidatorTexts == UNION {[1..n -> ValidatorAlphabet] : n \in 0..MaxLines}

ValidatorInit ==
    /\ text \in ValidatorTexts
    /\ dialogue = Dialogue
    /\ ppc = "init"
    /\ valid = FALSE
    /\ pos = 0
    /\ calls = <<>>
    /\ validator = DialogueValidator
    /\ vpc = "init"
    /\ state = EmptyState
    /\ condition = NoCond
    /\ cpc = "idle"
    /\ result = FALSE
    /\ cmdline = NoCmd
    /\ skip = FALSE
    /\ target_node = ""
    /\ mode = "idle"
    /\ search = NotStarted
    /\ computed = NotComputed
    /\ rpath = <<>>
    /\ replayed = NotReplayed
    /\ known_items = {}
    /\ known_companions = {}
    /\ choice_line = <<>>
    /\ node_choices = <<>>

\* validator.validate(): the file is read, then the passes run; the passes
\* other than _validate_structure and _validate_conditions neither read nor
\* write the item sets and add no item warning
ValidatorValidate ==
    /\ vpc = "init"
    /\ LET v == validate_structure([validator EXCEPT !.lines = text])
       IN \E order \in IterationOrders(undefined_items(v)) :
              validator' = validate_conditions(v, order)
    /\ vpc' = "validated"
    /\ UNCHANGED notValidator

ValidatorNext == ValidatorValidate

SpecValidator == ValidatorInit /\ [][ValidatorNext]_vars

-----------------------------------------------------------------------------
(* C2: grant_condition(c) immediately followed by evaluate_condition(c) on
   the same state returns true, for every grammar form and every state. *)
GrantThenEvaluateTrue ==
    (cpc = "granted_evaluated" /\ ~SyntaxError(condition)) => result = TRUE

(* C6: for an absent identifier x, both evaluators give: `x` false, `!x`
   true, `x >= N` false and `x < N` true for N > 0, and `x || y` true when
   y is a true flag. *)
AbsentIsFalseOrZero ==
    (cpc \in {"evaluated", "cli_evaluated"} /\ state.variables["x"] = NoneV) =>
        /\ condition = One(Atom("flag", "x", 0)) => result = FALSE
        /\ condition = One(Atom("not", "x", 0)) => result = TRUE
        /\ \A n \in 1..MaxInt : condition = One(Atom("ge", "x", n)) => result = FALSE
        /\ \A n \in 1..MaxInt : condition = One(Atom("lt", "x", n)) => result = TRUE
        /\ (condition = Or(Atom("flag", "x", 0), Atom("flag", "y", 0))
                /\ state.variables["y"] = BoolV(TRUE)) => result = TRUE

-----------------------------------------------------------------------------
(* Claims about the parser *)

\* the node_ids lists that the top-level loop hands to _parse_node, in order
RECURSIVE NodeGroups(_, _)
NodeGroups(ls, i) ==
    IF i > Len(ls) THEN <<>>
    ELSE LET line == ls[i]
         IN CASE line.k = "bracket" /\ line.id = "characters" ->
                    NodeGroups(ls, parse_characters(ls, i + 1, Dialogue).i)
              [] line.k = "bracket" /\ line.id = "state" ->
                    NodeGroups(ls, parse_state(ls, i + 1, Dialogue).i)
              [] line.k = "bracket" /\ IsEntryHeader(line.id) ->
                    NodeGroups(ls, parse_entry_group(ls, i + 1, "e", i, Dialogue).i)
              [] line.k = "bracket" /\ line.id \notin {"characters", "state"} /\ ~IsEntryHeader(line.id) ->
                    LET j == StackEnd(ls, i + 1)
                    IN <<[n \in 1..(j - i) |-> ls[i + n - 1].id]>>
                         \o NodeGroups(ls, parse_body(ls, j, Dialogue, DialogueNode("", 0)).i)
              [] OTHER -> NodeGroups(ls, i + 1)

Range(f) == {f[n] : n \in DOMAIN f}

SameBody(n1, n2) ==
    /\ n1.lines = n2.lines
    /\ n1.choices = n2.choices
    /\ n1.commands = n2.commands
    /\ n1.triggers = n2.triggers
    /\ n1.is_end = n2.is_end

Parsed == ppc \in {"parsed", "validated", "revalidated"}

(* C1: when validate() returns true, every Choice.target other than "END",
   in every node, is a key of Dialogue.nodes. *)
ValidatedTargetsExist ==
    (ppc \in {"validated", "revalidated"} /\ valid) =>
        \A id \in DOMAIN dialogue.nodes :
            \A n \in 1..Len(dialogue.nodes[id].choices) :
                LET t == dialogue.nodes[id].choices[n].target
                IN t = "END" \/ t \in DOMAIN dialogue.nodes

\* validate() returned true on a dialogue with a choice to a node and one to END
ValidatedTargetsExistWitness ==
    /\ ppc = "validated" /\ valid
    /\ \E id \in DOMAIN dialogue.nodes :
            \E n, m \in 1..Len(dialogue.nodes[id].choices) :
                /\ dialogue.nodes[id].choices[n].target = "b"
                /\ dialogue.nodes[id].choices[m].target = "END"

(* C7 as stated: after parse_lines, for every run of stacked node headers
   there is one entry per label, and every alias entry has the lines,
   choices, commands, triggers and is_end of the run's first label. *)
AliasesEqualPrimary ==
    Parsed =>
        \A g \in Range(NodeGroups(text, 1)) :
            \A n \in 1..Len(g) :
                /\ g[n] \in DOMAIN dialogue.nodes
                /\ SameBody(dialogue.nodes[g[n]], dialogue.nodes[g[1]])

(* C7 amended: after parse_lines there is one entry per label of every run,
   and an alias entry has the lines, choices, commands, triggers and is_end
   of the run's first label whenever neither of the two labels is a label of
   a later run (a later header for an id replaces its entry). *)
AliasesEqualPrimaryUnlessRedefined ==
    Parsed =>
        LET groups == NodeGroups(text, 1)
            later(k) == UNION {Range(groups[m]) : m \in (k + 1)..Len(groups)}
        IN \A k \in 1..Len(groups) :
            \A n \in 1..Len(groups[k]) :
                /\ groups[k][n] \in DOMAIN dialogue.nodes
                /\ (groups[k][n] \notin later(k) /\ groups[k][1] \notin later(k)) =>
                        SameBody(dialogue.nodes[groups[k][n]], dialogue.nodes[groups[k][1]])

\* a stacked run a, b that shares an @end body with a command, parsed
AliasesEqualPrimaryWitness ==
    /\ ppc = "parsed"
    /\ \E k \in 1..Len(NodeGroups(text, 1)) : Len(NodeGroups(text, 1)[k]) = 2
    /\ Len(NodeGroups(text, 1)) = 1
    /\ \A id \in {"a", "b"} :
            /\ id \in DOMAIN dialogue.nodes
            /\ dialogue.nodes[id].is_end
            /\ dialogue.nodes[id].commands # <<>>

IsPrefix(s, t) == Len(s) <= Len(t) /\ SubSeq(t, 1, Len(s)) = s

(* C10: validate() returns true if and only if Dialogue.errors is empty when
   the pass ends (errors recorded at parse time included), and it only
   appends to Dialogue.errors and Dialogue.warnings. *)
ValidateTrueIffNoErrors ==
    [][ppc' \in {"validated", "revalidated"} =>
            /\ valid' <=> (dialogue'.errors = <<>>)
            /\ IsPrefix(dialogue.errors, dialogue'.errors)
            /\ IsPrefix(dialogue.warnings, dialogue'.warnings)]_vars

\* validate() returned false on a dialogue whose only error is a trigger
\* with no target, recorded by the parser, and added a warning of its own
ValidateTrueIffNoErrorsWitness ==
    /\ ppc = "validated" /\ ~valid
    /\ Len(dialogue.errors) = 1
    /\ dialogue.errors[1].kind = "trigger_missing_target"
    /\ dialogue.warnings # <<>>

-----------------------------------------------------------------------------
(* Claims about the searches and the replay *)

SearchDone == search.pc = "done"

\* A position of a traversal: the node, the state on entry (its commands
\* applied) and the trigger nodes already jumped to
Config(node, st, used) == [node |-> node, state |-> st, used |-> used]

\* the state on entering node id from state st
Entered(dlg, id, st) == IF HasNode(dlg, id) THEN RunCommands(st, dlg.nodes[id].commands).st ELSE st

StartConfig(dlg) ==
    Config(dlg.start_node, Entered(dlg, dlg.start_node, RunCommands(EmptyState, dlg.initial_state).st), {})

\* the positions one followable Choice edge from w leads to, in node v
ChoiceSteps(dlg, w, v) ==
    IF ~HasNode(dlg, w.node) \/ (v # "END" /\ ~HasNode(dlg, v)) THEN {}
    ELSE {Config(v, Entered(dlg, v, w.state), w.used) :
            c \in {c \in Range(dlg.nodes[w.node].choices) :
                      c.target = v /\ evaluate_condition(w.state, c.condition)}}

\* the position one allowed trigger jump from w leads to, in node v
JumpSteps(dlg, w, v) ==
    IF /\ HasNode(dlg, w.node) /\ dlg.nodes[w.node].is_end
       /\ HasNode(dlg, v) /\ dlg.nodes[v].triggers # <<>>
       /\ v \notin w.used
    THEN {Config(v, Entered(dlg, v, grant_condition(w.state, dlg.nodes[v].triggers[1].condition)),
                 w.used \cup {v})}
    ELSE {}

AllIds(dlg) == DOMAIN dlg.nodes \cup {"END"}

Successors(dlg, w) == UNION {ChoiceSteps(dlg, w, v) \cup JumpSteps(dlg, w, v) : v \in AllIds(dlg)}

\* The least number of edges from a position of `level` to the target, the
\* positions of `seen` being nearer to the start; -1 when there is no way
RECURSIVE MinEdges(_, _, _, _, _)
MinEdges(dlg, goal, level, seen, depth) ==
    IF level = {} THEN -1
    ELSE IF \E w \in level : w.node = goal THEN depth
    ELSE LET all == seen \cup level
         IN MinEdges(dlg, goal, UNION {Successors(dlg, w) : w \in level} \ all, all, depth + 1)

\* C3: the shortest search returns a path whenever Choice edges with true
\* conditions and allowed trigger jumps lead from the start node to the
\* target, and its path has the least number of edges of all such ways.
ShortestFindsMinimumPath ==
    (mode = "shortest" /\ SearchDone) =>
        LET least == MinEdges(dialogue, target_node, {StartConfig(dialogue)}, {}, 0)
        IN least >= 0 => (search.res.found /\ Len(search.res.path) - 1 = least)

\* C4: whenever the random or the explore search returns a path, the
\* shortest search on the same dialogue and target returns a path too,
\* and one that is not longer.
ShortestNotLongerThanOthers ==
    (mode \in {"random", "explore"} /\ SearchDone /\ search.res.found) =>
        LET shortest == find_valid_path_to_node(dialogue, target_node).res
        IN shortest.found /\ Len(shortest.path) <= Len(search.res.path)

\* the state after the [state] commands and the commands of path[1..n]
RECURSIVE CommandsOnly(_, _, _)
CommandsOnly(dlg, path, n) ==
    IF n = 0 THEN RunCommands(EmptyState, dlg.initial_state).st
    ELSE Entered(dlg, path[n], CommandsOnly(dlg, path, n - 1))

\* (u, v) can be a trigger jump: u is an @end node and v has a trigger
IsJumpPair(dlg, u, v) ==
    /\ HasNode(dlg, u) /\ dlg.nodes[u].is_end
    /\ HasNode(dlg, v) /\ dlg.nodes[v].triggers # <<>>

\* C8 as stated: a returned path starts at start_node, and every pair
\* (u, v) of it that is no trigger jump is a Choice of u to v whose
\* condition is true in the state made by the [state] commands and the
\* commands of the nodes of the path up to u.
PathChoicesTrueUnderCommands ==
    (SearchDone /\ search.res.found) =>
        LET path == search.res.path
        IN /\ path[1] = dialogue.start_node
           /\ \A n \in 1..(Len(path) - 1) :
                ~IsJumpPair(dialogue, path[n], path[n + 1]) =>
                    \E c \in Range(dialogue.nodes[path[n]].choices) :
                        /\ c.target = path[n + 1]
                        /\ evaluate_condition(CommandsOnly(dialogue, path, n), c.condition)

\* the positions a walk along path[1..n] can be in, each step a Choice edge
\* whose condition is true in the position's state or an allowed trigger jump
RECURSIVE WalkConfigs(_, _, _)
WalkConfigs(dlg, path, n) ==
    IF n = 1 THEN {w \in {StartConfig(dlg)} : path[1] = dlg.start_node}
    ELSE UNION {ChoiceSteps(dlg, w, path[n]) \cup JumpSteps(dlg, w, path[n]) :
                    w \in WalkConfigs(dlg, path, n - 1)}

\* C8, amended: a returned path starts at start_node and is a walk in which
\* every step is an allowed trigger jump, which grants the condition of the
\* destination's first trigger, or a Choice whose condition is true in the
\* state accumulated so far, grants included; the returned state is the
\* state of that walk.
PathIsWalkWithGrants ==
    (SearchDone /\ search.res.found) =>
        /\ search.res.path[1] = dialogue.start_node
        /\ \E w \in WalkConfigs(dialogue, search.res.path, Len(search.res.path)) :
              w.state = search.res.state

\* a returned path whose guarded choice is open only through the grant of a jump
PathIsWalkWithGrantsWitness ==
    /\ SearchDone /\ search.res.found
    /\ mode = "explore"
    /\ search.res.path = <<"start", "t", "g">>
    /\ search.res.state.variables["y"] = BoolV(TRUE)
    /\ dialogue.nodes["t"].choices[2].condition = FlagY

\* C9: within one search call no state signature is expanded twice.
NoSignatureExpandedTwice ==
    \A i, j \in DOMAIN search.expanded :
        i < j => search.expanded[i] # search.expanded[j]

\* C5: replay_path answers every non-empty path with a final state, never
\* with an error.
ReplayNeverFails ==
    (replayed.status # 0 /\ rpath # <<>>) => replayed.status = 200

\* C11: for a target that is neither a node nor "END" the search returns no
\* path and expands nothing, the fallback returns no path, and compute-path
\* answers with path null and the empty state.
UnknownTargetFails ==
    (computed.status # 0 /\ ~HasNode(dialogue, target_node) /\ target_node # "END") =>
        /\ search.pc = "done" /\ ~search.res.found
        /\ search.expanded = <<>> /\ search.visited = {}
        /\ \A entry \in EntryPicks(dialogue, target_node) :
              ~find_tree_entry_and_path(dialogue, target_node, entry).res.found
        /\ computed = Computed(200, NoResult, FALSE)

-----------------------------------------------------------------------------
(* Claims about the frame of grant_condition and execute_command *)

Granted == cpc = "start" /\ cpc' = "granted"

\* the nearest value that satisfies x op n
Nearest(op, n) ==
    IF op = "ge" THEN n ELSE IF op = "gt" THEN n + 1 ELSE IF op = "le" THEN n ELSE n - 1

\* C12: for x >= N, x > N, x <= N, x < N, grant_condition leaves the state
\* as it is when the numeric value of x satisfies the comparison, and
\* otherwise stores N, N+1, N, N-1 in x and changes nothing else (an absent
\* x that 0 does not satisfy included).
GrantComparisonNearest ==
    [][(Granted /\ condition.k = "atom" /\ condition.a.k \in CmpOps) =>
          LET a == condition.a
              cur == state.variables[a.x]
              moved == SetVar(state, a.x, IntV(Nearest(a.k, a.n)))
          IN /\ (IsNumber(cur) /\ Compare(a.k, cur.v, a.n)) => state' = state
             /\ (IsNumber(cur) /\ ~Compare(a.k, cur.v, a.n)) => state' = moved
             /\ (cur = NoneV /\ ~Compare(a.k, 0, a.n)) => state' = moved]_vars

\* x < 0 granted on a state with an item, where only x changed
GrantComparisonNearestWitness ==
    /\ cpc = "granted"
    /\ condition = One(Atom("lt", "x", 0))
    /\ state.variables["x"] = IntV(0 - 1)
    /\ state.variables["y"] = IntV(MaxInt)
    /\ state.inventory = {"k"}

\* C13: grant_condition on a || b changes the state exactly as
\* grant_condition on a alone does.
GrantOrIsGrantFirst ==
    [][(Granted /\ condition.k = "or") => state' = grant_condition(state, One(condition.a))]_vars

\* has_item:k || y granted on a state without y: the item is there, y is not
GrantOrIsGrantFirstWitness ==
    /\ cpc = "granted"
    /\ condition = Or(Atom("has_item", "k", 0), Atom("flag", "y", 0))
    /\ state.inventory = {"k"}
    /\ state.variables["y"] = NoneV



Executed == cpc = "start" /\ cpc' = "executed"

\* C14: set v = value with skip_if_exists leaves the whole state unchanged
\* when v has a value and sets v when it is absent; without skip_if_exists
\* it overwrites v in both cases.
SetSkipsIfExists ==
    [][(Executed /\ cmdline.cmd = "set") =>
          IF skip /\ state.variables[cmdline.name] # NoneV
          THEN state' = state
          ELSE state' = SetVar(state, cmdline.name, cmdline.val)]_vars

\* set x = 1 with skip_if_exists on a state where x is False: x is still False
SetSkipsIfExistsWitness ==
    /\ cpc = "executed"
    /\ skip
    /\ cmdline = Cmd("set", "x", IntV(1))
    /\ state.variables["x"] = BoolV(FALSE)


-----------------------------------------------------------------------------
(* Claims about parse_lines and validate() on texts with entry groups *)

(* C15: after parse_lines, start_node is unset exactly when no node was
   parsed; otherwise it is a key of Dialogue.nodes, "start" when a node
   named "start" exists and the first parsed node id when none does. *)
StartNodeDefault ==
    Parsed =>
        /\ (dialogue.start_node = NoStart) <=> (dialogue.order = <<>>)
        /\ dialogue.order # <<>> =>
                /\ HasNode(dialogue, dialogue.start_node)
                /\ HasNode(dialogue, "start") => dialogue.start_node = "start"
                /\ ~HasNode(dialogue, "start") =>
                        dialogue.start_node = NodeGroups(text, 1)[1][1]

\* a text whose first label is a and whose later label is start, parsed
StartNodeDefaultWitness ==
    /\ ppc = "parsed"
    /\ dialogue.order = <<"a", "start">>
    /\ dialogue.start_node = "start"

\* the diagnostics that validate() appended to those of the parser
Added(before, after) == SubSeq(after, Len(before) + 1, Len(after))

(* C17: in validate(), an EntryGroup route whose target is not a key of
   nodes adds a fatal error and makes the result false; an exit node that
   does not exist, and a group with no route lacking a condition, only add
   a warning each and do not by themselves make the result false. *)
RouteFatalExitWarning ==
    ppc = "validated" =>
        LET before == parse_lines(text)
            errors == Range(Added(before.errors, dialogue.errors))
            warnings == Range(Added(before.warnings, dialogue.warnings))
            groups == Range(before.entries)
            undefined_choice ==
                \E id \in DOMAIN before.nodes : \E c \in Range(before.nodes[id].choices) :
                    c.target # "END" /\ ~HasNode(before, c.target)
            missing_route == \E g \in groups : \E r \in Range(g.routes) : ~HasNode(before, r.target)
        IN /\ \A g \in groups : \A r \in Range(g.routes) :
                ~HasNode(before, r.target) =>
                    /\ ~valid
                    /\ Diag("undefined_route_target", r.line_number, g.name) \in errors
           /\ \A g \in groups : \A e \in Range(g.exits) :
                ~HasNode(before, e) => \E w \in warnings : w.kind = "undefined_exit" /\ w.what = e
           /\ \A g \in groups :
                (\A r \in Range(g.routes) : r.condition # NoCond) =>
                    \E w \in warnings : w.kind = "no_default_route" /\ w.what = g.name
           /\ \A e \in errors : e.kind \in {"undefined_target", "undefined_route_target"}
           /\ (~missing_route /\ ~undefined_choice /\ before.errors = <<>>) => valid

\* validate() returned true on a group whose only route has a condition and
\* whose exit node does not exist: two warnings, no error
RouteFatalExitWarningWitness ==
    /\ ppc = "validated" /\ valid
    /\ dialogue.errors = <<>>
    /\ \E w \in Range(dialogue.warnings) : w.kind = "undefined_exit"
    /\ \E w \in Range(dialogue.warnings) : w.kind = "no_default_route"
    /\ \E g \in Range(dialogue.entries) : g.routes # <<>>

\* the ids one Choice edge away from the ids of S, "END" left out
Step(dlg, S) ==
    UNION {{c.target : c \in Range(dlg.nodes[id].choices)} : id \in S \cap DOMAIN dlg.nodes} \ {"END"}

\* the ids reached from the seeds along Choice edges, "END" never entered
RECURSIVE Reached(_, _)
Reached(dlg, S) ==
    LET R == S \ {"END"}
        T == R \cup Step(dlg, R)
    IN IF T = R THEN R ELSE Reached(dlg, T)

RouteTargets(dlg) == UNION {{r.target : r \in Range(g.routes)} : g \in Range(dlg.entries)}
TriggerNodes(dlg) == {id \in DOMAIN dlg.nodes : dlg.nodes[id].triggers # <<>>}

\* validate() added an "unreachable" warning for node_id
Unreachable(node_id) ==
    \E w \in Range(Added(parse_lines(text).warnings, dialogue.warnings)) :
        w.kind = "unreachable" /\ w.what = node_id

(* C18 as stated: validate() adds an "unreachable" warning for a node n
   exactly when n is not reached by a walk along Choice edges (conditions
   ignored, "END" never entered) seeded from start_node, from every
   EntryGroup route target and from every node carrying a Trigger. *)
UnreachableIffNotReached ==
    ppc = "validated" =>
        LET before == parse_lines(text)
            seeds == ({before.start_node} \ {NoStart})
                        \cup RouteTargets(before) \cup TriggerNodes(before)
        IN \A n \in DOMAIN before.nodes : Unreachable(n) <=> n \notin Reached(before, seeds)

(* C18 amended: validate() adds an "unreachable" warning for a node n
   exactly when n is not start_node and n is not reached by a walk along
   Choice edges ("END" never entered) seeded from start_node unless it is
   the empty label, from every EntryGroup route target and from every node
   carrying a Trigger. *)
UnreachableIffNotReachedNorStart ==
    ppc = "validated" =>
        LET before == parse_lines(text)
            seeds == ({before.start_node} \ {NoStart, ""})
                        \cup RouteTargets(before) \cup TriggerNodes(before)
        IN \A n \in DOMAIN before.nodes :
              Unreachable(n) <=> (n # before.start_node /\ n \notin Reached(before, seeds))

\* validate() ran on a dialogue in which a is reached only as a route
\* target, not from start_node, and gave no warning for it
UnreachableIffNotReachedWitness ==
    /\ ppc = "validated"
    /\ dialogue.start_node \notin {"a", "END", ""}
    /\ HasNode(dialogue, "a") /\ ~Unreachable("a")
    /\ "a" \in RouteTargets(dialogue)
    /\ "a" \notin Reached(dialogue, {dialogue.start_node} \cup TriggerNodes(dialogue))

\* a loop hands back an index: the loop, what it was given and what it returns
Returns(kinds) ==
    /\ Running(kinds)
    /\ Len(calls') < Len(calls)

(* C16 as stated: every loop of the parser (characters, state, entry group,
   node body, multi-line quoted text) hands back a line index strictly
   greater than the one it was given. *)
ParseLoopsAdvanceStrictly ==
    [][Returns({"characters", "state", "entry", "node", "multiline"}) => pos' > Top.given]_vars

(* C16 amended: parse_lines terminates and returns the Dialogue.  A pass of
   the top-level loop moves to a greater index, and so does a choice, its
   multi-line text included; the characters, state, entry group, node body
   and multi-line text loops are given the index after the line that opened
   them and hand back an index that is at least that one (equal to it when
   the next line is a header or the input has ended) and at most the number
   of lines. *)
ParseLinesTerminates ==
    /\ [][/\ Returns({"characters", "state", "entry", "node", "multiline"}) =>
                (Top.given <= pos' /\ pos' <= Len(text) + 1)
          /\ Returns({"multiline"}) => pos' > Top.at
          /\ (Running({"top"}) /\ ppc' = "parsing") => pos' > pos
          /\ pos' >= pos]_vars
    /\ [](ppc = "parsed" => dialogue = parse_lines(text))
    /\ <>(ppc = "parsed")

\* parse_lines returned on a text that ends inside the open quote of a
\* choice after the quote had swallowed a header
ParseLinesTerminatesWitness ==
    /\ ppc = "parsed"
    /\ Len(text) = 3
    /\ text[2].k = "choiceopen"
    /\ text[3].k = "bracket"
    /\ DOMAIN dialogue.nodes = {"a"}
    /\ Len(dialogue.nodes["a"].choices) = 1

-----------------------------------------------------------------------------
(* Claims about the comparison operators of the condition grammar *)

(* C19: for a variable x holding the integer v and an integer literal N,
   evaluate_condition("x != N") is true exactly when v differs from N, in
   WebGameState and in the CLI GameState. *)
NotEqualComparison ==
    (/\ cpc \in {"evaluated", "cli_evaluated"}
     /\ condition.k = "atom" /\ condition.a.k = "ne"
     /\ state.variables[condition.a.x].t = "int") =>
        (result <=> state.variables[condition.a.x].v # condition.a.n)

-----------------------------------------------------------------------------
(* Claims about the command-line validator *)

\* the "Item 'X' checked but never given via *give_item" warnings
ItemWarnings(X) ==
    SelectSeq(validator.warnings, LAMBDA w : w.kind = "item_never_given" /\ w.what = X)

\* the choices of the nodes that DialogueParser reads from the same lines
\* whose condition holds has_item:X
ChoicesChecking(dlg, X) ==
    {c \in UNION {Range(dlg.nodes[id].choices) : id \in DOMAIN dlg.nodes} : X \in ItemsOf(c.condition)}

\* a *give_item X command of [state] or of a node
GivenByCommand(dlg, X) ==
    \E c \in Range(dlg.initial_state) \cup UNION {Range(dlg.nodes[id].commands) : id \in DOMAIN dlg.nodes} :
        c.cmd = "give_item" /\ c.name = X

(* C20: validate() emits an "Item ... checked but never given" warning
   naming X exactly when X is checked by has_item:X in a choice condition
   and no *give_item X command is in [state] or in a node; a file with a
   single has_item:X choice and no such command yields exactly one. *)
ItemWarningIffCheckedNotGiven ==
    vpc = "validated" =>
        LET dlg == parse_lines(text)
        IN \A X \in ValidatorItems :
              /\ (ItemWarnings(X) # <<>>) <=>
                     (ChoicesChecking(dlg, X) # {} /\ ~GivenByCommand(dlg, X))
              /\ (Cardinality(ChoicesChecking(dlg, X)) = 1 /\ ~GivenByCommand(dlg, X)) =>
                     Len(ItemWarnings(X)) = 1

-----------------------------------------------------------------------------
(* Claims about trigger jumps, the iteration caps and termination *)

\* the entries one iteration of the loop has appended to the frontier
Pushed ==
    SubSeq(search'.frontier, Len(Rest(mode, search)) + 1, Len(search'.frontier))

\* the position a frontier entry stands for
ConfigOf(e) == Config(e.node, e.state, e.used)

(* C21: in the three searches a trigger jump is taken only out of an @end
   node, to a Trigger-bearing node that was not yet a jump destination on
   the same path, and its state is the source state with the condition of
   the destination's first trigger granted and the destination's commands
   applied; every other step is a Choice and leaves used_triggers alone; so
   a path holds at most one jump per Trigger-bearing node. *)
JumpOnlyFromEndToUnusedTrigger ==
    /\ [][(search.pc = "loop" /\ search'.pc = "loop") =>
            \A n \in DOMAIN Pushed :
                LET e == Taken(mode, search)
                    new == Pushed[n]
                IN /\ new.path = Append(e.path, new.node)
                   /\ IF new.used = e.used
                      THEN ConfigOf(new) \in ChoiceSteps(dialogue, ConfigOf(e), new.node)
                      ELSE /\ dialogue.nodes[e.node].is_end
                           /\ dialogue.nodes[new.node].triggers # <<>>
                           /\ new.node \notin e.used
                           /\ new.used = e.used \cup {new.node}
                           /\ new.state =
                                RunCommands(grant_condition(e.state,
                                                dialogue.nodes[new.node].triggers[1].condition),
                                            dialogue.nodes[new.node].commands).st]_vars
    /\ [](\A n \in DOMAIN search.frontier :
            LET e == search.frontier[n]
            IN /\ Cardinality(e.used) <= Len(e.path) - 1
               /\ \A id \in e.used :
                    /\ dialogue.nodes[id].triggers # <<>>
                    /\ \E m \in 2..Len(e.path) : e.path[m] = id)

\* an entry on the frontier that came by a jump out of an @end node that is
\* not the start node
JumpOnlyFromEndToUnusedTriggerWitness ==
    \E n \in DOMAIN search.frontier :
        /\ search.frontier[n].used = {"t"}
        /\ search.frontier[n].path = <<"start", "b", "b2", "a", "t">>

(* C22: find_exploratory_path_to_node performs at most 10000 expansions and
   collects at most 20 successful paths before it chooses one, for every
   dialogue and every target, "END" included. *)
ExploreWithinCaps ==
    mode = "explore" =>
        /\ search.iterations <= max_iterations
        /\ Len(search.all_paths) <= max_paths

\* a Choice edge from node u to node v, whatever its condition
ChoiceEdge(dlg, u, v) ==
    /\ HasNode(dlg, u) /\ HasNode(dlg, v)
    /\ \E n \in 1..Len(dlg.nodes[u].choices) : dlg.nodes[u].choices[n].target = v

\* the sequences of nodes joined by Choice edges, no longer than the number
\* of nodes
ChoiceWalks(dlg) ==
    {w \in UNION {[1..n -> DOMAIN dlg.nodes] : n \in 1..Cardinality(DOMAIN dlg.nodes)} :
        \A i \in 1..(Len(w) - 1) : ChoiceEdge(dlg, w[i], w[i + 1])}

\* the Trigger-bearing nodes from which Choice edges lead to the target
TriggerSources(dlg, target) ==
    {id \in DOMAIN dlg.nodes :
        /\ dlg.nodes[id].triggers # <<>>
        /\ \E w \in ChoiceWalks(dlg) : w[1] = id /\ w[Len(w)] = target}

(* C23: find_tree_entry_and_path returns a path if and only if the target is
   a node and some Trigger-bearing node can reach it along Choice edges,
   conditions ignored; the path begins at such a node, ends at the target,
   and its consecutive nodes are joined by Choice edges. *)
TreePathIffTriggerReaches ==
    ppc = "parsed" =>
        \A entry \in EntryPicks(dialogue, target_node) :
            LET t == find_tree_entry_and_path(dialogue, target_node, entry)
                path == t.res.path
            IN /\ (~t.raised /\ t.res.found)
                      <=> (HasNode(dialogue, target_node)
                           /\ TriggerSources(dialogue, target_node) # {})
               /\ t.res.found =>
                      /\ path[1] \in TriggerSources(dialogue, target_node)
                      /\ path[Len(path)] = target_node
                      /\ \A i \in 1..(Len(path) - 1) : ChoiceEdge(dialogue, path[i], path[i + 1])

(* C24: find_valid_path_to_node and find_random_path_to_node terminate on
   every finite dialogue, cyclic graphs whose nodes run *add or *sub and
   targets that cannot be reached included. *)
ShortestAndRandomTerminate ==
    (search.pc = "loop" /\ mode \in {"shortest", "random"})
        ~> (search.pc \in {"done", "raised"})

-----------------------------------------------------------------------------
(* Claims about execute_command and the two evaluators *)

(* C30: execute_command completes without raising for every command and
   every state: add or sub with a non-integer amount leaves the state
   unchanged, add or sub on an absent variable starts from 0, and add or sub
   with an integer amount does not fault on a variable that holds a string
   or a boolean. *)
ExecuteCommandNeverRaises ==
    [][cpc = "start" =>
          /\ cpc' = "executed"
          /\ (cmdline.cmd \in {"add", "sub"} /\ cmdline.val.t # "int") => state' = state
          /\ (cmdline.cmd = "add" /\ cmdline.val.t = "int" /\ state.variables[cmdline.name] = NoneV) =>
                state'.variables[cmdline.name] = IntV(cmdline.val.v)
          /\ (cmdline.cmd = "sub" /\ cmdline.val.t = "int" /\ state.variables[cmdline.name] = NoneV) =>
                state'.variables[cmdline.name] = IntV(0 - cmdline.val.v)]_vars

(* C28: WebGameState.evaluate_condition and the CLI GameState.evaluate_condition
   return the same boolean for every condition of the grammar and every
   state, also when identifiers of the condition are absent. *)
EvaluatorsAgree ==
    cpc \in {"evaluated", "cli_evaluated"} =>
        /\ result = evaluate_condition(state, condition)
        /\ result = cli_evaluate_condition(state, condition)

-----------------------------------------------------------------------------
(* Claims about replay-path after compute-path *)

\* the returned path and state are those of a walk along Choices only
NoJumpTaken ==
    \E w \in WalkConfigs(dialogue, search.res.path, Len(search.res.path)) :
        w.used = {} /\ w.state = search.res.state

(* C29: for a path and state returned by find_valid_path_to_node without a
   trigger jump, replay_path on that path and the same dialogue yields the
   same variables, inventory and companions, also when a node has several
   Choices to the same target. *)
ReplayReproducesSearchState ==
    (replayed.status # 0 /\ NoJumpTaken) => replayed = Response(200, search.res.state)

-----------------------------------------------------------------------------
(* Claims about the section headers, the `->` lines and the known names *)

SectionIds == {"characters", "state", "entry:e"}

(* C27: a [characters], [state] or [entry:NAME] header line always opens
   its section and is never recorded as a node id in Dialogue.nodes,
   wherever it stands, also directly after a bracketed node header. *)
SectionHeaderNeverNode ==
    ppc # "init" => \A id \in SectionIds : ~HasNode(dialogue, id)

\* the commands and the conditions of the parsed dialogue: the [state]
\* commands, and of every node its commands and the conditions of its
\* lines, choices and triggers, and the conditions of the entry routes
CommandsOf(dlg) ==
    Range(dlg.initial_state) \cup UNION {Range(dlg.nodes[id].commands) : id \in DOMAIN dlg.nodes}

ConditionsOf(dlg) ==
    UNION {{x.condition : x \in Range(dlg.nodes[id].lines) \cup Range(dlg.nodes[id].choices)
                                  \cup Range(dlg.nodes[id].triggers)} : id \in DOMAIN dlg.nodes}
      \cup UNION {{r.condition : r \in Range(dlg.entries[n].routes)} : n \in DOMAIN dlg.entries}

ItemNamesOf(dlg) ==
    {c.name : c \in {d \in CommandsOf(dlg) : d.cmd \in {"give_item", "remove_item"}}}
      \cup UNION {ItemsOf(c) : c \in ConditionsOf(dlg)}

CompanionNamesOf(dlg) ==
    {c.name : c \in {d \in CommandsOf(dlg) : d.cmd \in {"add_companion", "remove_companion"}}}
      \cup UNION {{a.x : a \in {b \in AtomsOf(c) : b.k = "companion"}} : c \in ConditionsOf(dlg)}

(* C26: after any sequence of parse_lines calls on one DialogueParser,
   known_items and known_companions are exactly the item and companion
   names in the commands and in the line, choice, trigger and entry-route
   conditions of the most recent input. *)
KnownNamesOfLatestParse ==
    ppc = "parsed" =>
        /\ known_items = ItemNamesOf(dialogue)
        /\ known_companions = CompanionNamesOf(dialogue)

\* the line holds a ':' and either no '{' or its first ':' before its first '{'
ColonFirst(s) ==
    Has(s, ":") /\ (Has(s, "{") => index(s, ":") < index(s, "{"))

\* the text between the first '{' and the '}' that ends the line
BraceContent(s) == strip(SubSeq(s, index(s, "{") + 1, Len(s) - 1))

(* C25 as stated: a `->` line yields a player-presented Choice, target
   before the colon and non-empty text after it, exactly when it holds a ':'
   and either no '{' or its first ':' before its first '{'; otherwise an
   automatic transition with empty text whose condition is the brace
   content. *)
PlayerChoiceIffColonFirst ==
    node_choices # <<>> =>
        LET c == node_choices[1]
            s == strip(choice_line)
        IN IF ColonFirst(s)
           THEN c.target = strip(Before(s, index(s, ":"))) /\ c.text # <<>>
           ELSE /\ c.text = <<>>
                /\ ~Has(s, "{") => c.condition = None
                /\ (Has(s, "{") /\ endswith(s, "}")) => c.condition = Some(BraceContent(s))

(* C25 amended: a `->` line yields a Choice with text only when it holds a
   ':' and either no '{' or its first ':' before its first '{', and in that
   case the target is the text before the first ':' (the text after it may
   be empty, which makes the line an automatic transition); otherwise the
   text is empty, the target is the text before the first '{', and the
   condition of a line that ends with '}' is the text between its first '{'
   and that '}' (none when the line has no '{'); `-> t {t:t}` gives target
   t, text "" and condition t:t. *)
ChoiceSplitsAtFirstColon ==
    node_choices # <<>> =>
        LET c == node_choices[1]
            s == strip(choice_line)
        IN /\ c.text # <<>> => ColonFirst(s)
           /\ ColonFirst(s) => c.target = strip(Before(s, index(s, ":")))
           /\ (~ColonFirst(s) /\ ~Has(s, "{")) =>
                 c = TextChoice(s, <<>>, None)
           /\ (~ColonFirst(s) /\ Has(s, "{")) =>
                 /\ c.text = <<>>
                 /\ c.target = strip(Before(s, index(s, "{")))
                 /\ endswith(s, "}") => c.condition = Some(BraceContent(s))
           /\ choice_line = GuardedGoto =>
                 c = TextChoice(<<"t">>, <<>>, Some(<<"t", ":", "t">>))

ChoiceSplitsAtFirstColonWitness ==
    /\ choice_line = GuardedGoto
    /\ node_choices = <<TextChoice(<<"t">>, <<>>, Some(<<"t", ":", "t">>))>>

====
